---- MODULE Spec2Model ----
(***************************************************************************)
(* A model of the document tree of textpress.htmlprocessor: the Node heap  *)
(* with its ownership-checked child lists (NodeList), and the tree codec   *)
(* (dump_tree / load_tree over pickle).  The code is Python 2: slices of a *)
(* list subclass go through __setslice__ / __delslice__, and the           *)
(* interpreter adds len() to a negative slice index once per slice         *)
(* expression before the method sees it.                                   *)
(***************************************************************************)
EXTENDS Integers, Sequences, FiniteSets, TLC

\* ---------------------------------------------------------------- bounds
\* Number of Node objects on the heap.
NumNodes == 3
\* Longest child list the actions build.
MaxLen == 2
\* Number of public calls in one run.
MaxOps == 2
DocSize == 6

\* ---------------------------------------------------------------- values
\* Python's None as a parent pointer; node identities are 1..NumNodes.
None == 0
Nodes == 1 .. NumNodes

VARIABLES
    parent,     \* parent[n]: Node.parent, a node or None
    children,   \* children[n]: the NodeList n.children, a sequence of nodes
    last,       \* the last public call: its name and the exception it raised
    ops,        \* the number of public calls made so far
    fields,     \* fields[n]: class, name, attributes, value, callback_data
    blob,       \* the stored byte string, the tree it was dumped from
    result,     \* what the last load handed back
    qr,         \* the QueryResult at hand: its generator, _results, _gen
    ret,        \* what the last call on a node or a QueryResult handed back
    listeners,  \* the listeners connected to 'process-node-callback'
    offered,    \* the events the last call sent to 'process-node-callback'
    parsing     \* the parser hooks, _parser_cache, and the last parse call

vars ==
    <<parent, children, last, ops, fields, blob, result, qr, ret, listeners,
      offered, parsing>>

\* The state of the query and render engines.
engineVars == <<qr, ret, listeners, offered, parsing>>

\* ------------------------------------------------------ list primitives
\* list.pop / list.__getitem__ / list.__setitem__ index: a negative index
\* counts from the end.
PyIndex(len, idx) == IF idx < 0 THEN idx + len ELSE idx

\* What the interpreter does to each bound of a slice expression before
\* __getslice__ / __setslice__ / __delslice__ is called: len() is added to a
\* negative bound, once, and the result may still be negative.
SliceAdjust(len, i) == IF i < 0 THEN i + len ELSE i

\* list_slice / list_ass_slice clamp the bounds they are given.
ClampLo(len, i) == IF i < 0 THEN 0 ELSE IF i > len THEN len ELSE i
ClampHi(len, lo, j) == IF j < lo THEN lo ELSE IF j > len THEN len ELSE j

\* The expression self[i:j] inside a method: the interpreter adjusts the
\* bounds, list.__getslice__ clamps them and copies.
GetSlice(c, i, j) ==
    LET len == Len(c)
        lo  == ClampLo(len, SliceAdjust(len, i))
        hi  == ClampHi(len, lo, SliceAdjust(len, j))
    IN  SubSeq(c, lo + 1, hi)

\* list.__delslice__(self, i, j) called as a method: no adjustment, only the
\* clamp of list_ass_slice.
ListDelSlice(c, i, j) ==
    LET len == Len(c)
        lo  == ClampLo(len, i)
        hi  == ClampHi(len, lo, j)
    IN  SubSeq(c, 1, lo) \o SubSeq(c, hi + 1, len)

\* list.insert(self, pos, item): ins1 of listobject.c.
ListInsert(c, pos, item) ==
    LET len == Len(c)
        w0  == IF pos < 0 THEN pos + len ELSE pos
        w   == IF w0 < 0 THEN 0 ELSE IF w0 > len THEN len ELSE w0
    IN  SubSeq(c, 1, w) \o <<item>> \o SubSeq(c, w + 1, len)

\* list.pop(self, k) for a valid 0-based k.
ListRemoveAt(c, k) == SubSeq(c, 1, k) \o SubSeq(c, k + 2, Len(c))

\* ------------------------------------------------------- call outcomes
\* A heap is [parent, children]; a call returns the heap it leaves and the
\* exception it raised ("ok" when it returned).
Heap(p, c) == [parent |-> p, children |-> c]
Return(h) == [h |-> h, exc |-> "ok"]
Raise(h, e) == [h |-> h, exc |-> e]

NotInList == "ValueError: node not in list"
UnpackError == "ValueError: unpack"

SetParent(h, n, p) == Heap([h.parent EXCEPT ![n] = p], h.children)
SetChildren(h, n, c) == Heap(h.parent, [h.children EXCEPT ![n] = c])

\* NodeList.node: the node a child list belongs to.  Node.__init__ builds
\* NodeList(self), so the list children[n] has node n.
ListNode(n) == n

\* ---------------------------------------------------- NodeList methods
\* A NodeList.append that binds and appends without looking at item.parent.
NodeListAppendUnchecked(h, n, item) ==
    Return(SetChildren(SetParent(h, item, ListNode(n)), n,
                       Append(h.children[n], item)))

\* NodeList.append(item)
NodeListAppend(h, n, item) ==
    IF h.parent[item] # None
    THEN Raise(h, "TypeError")
    ELSE Return(SetChildren(SetParent(h, item, ListNode(n)), n,
                            Append(h.children[n], item)))

\* NodeList.insert(pos, item)
NodeListInsert(h, n, pos, item) ==
    IF h.parent[item] # None
    THEN Raise(h, "TypeError")
    ELSE Return(SetChildren(SetParent(h, item, ListNode(n)), n,
                            ListInsert(h.children[n], pos, item)))

\* NodeList.extend(other): append each item, stopping at the first raise.
RECURSIVE NodeListExtend(_, _, _)
NodeListExtend(h, n, other) ==
    IF other = <<>>
    THEN Return(h)
    ELSE LET r == NodeListAppend(h, n, Head(other))
         IN  IF r.exc # "ok" THEN r ELSE NodeListExtend(r.h, n, Tail(other))

\* NodeList.pop(index=None); args is <<>> for pop() and <<i>> for pop(i).
\* list.pop raises IndexError before anything changes.
NodeListPop(h, n, args) ==
    LET c   == h.children[n]
        len == Len(c)
        k   == PyIndex(len, IF args = <<>> THEN -1 ELSE args[1])
    IN  IF len = 0 \/ k < 0 \/ k >= len
        THEN Raise(h, "IndexError")
        ELSE Return(SetParent(SetChildren(h, n, ListRemoveAt(c, k)),
                              c[k + 1], None))

\* NodeList.__delitem__(idx): self.pop(idx)
NodeListDelItem(h, n, idx) == NodeListPop(h, n, <<idx>>)

\* NodeList.__delslice__(start, end): the parents of self[start:end] are
\* cleared, then list.__delslice__(self, start, end) removes its own range.
RECURSIVE ClearParents(_, _)
ClearParents(h, s) ==
    IF s = <<>> THEN h ELSE ClearParents(SetParent(h, Head(s), None), Tail(s))

NodeListDelSlice(h, n, start, end) ==
    LET c  == h.children[n]
        h1 == ClearParents(h, GetSlice(c, start, end))
    IN  Return(SetChildren(h1, n, ListDelSlice(c, start, end)))

\* NodeList.__setitem__(idx, item) for an integer idx.
NodeListSetItem(h, n, idx, item) ==
    LET c   == h.children[n]
        len == Len(c)
        k   == PyIndex(len, idx)
    IN  IF h.parent[item] # None
        THEN Raise(h, "TypeError")
        ELSE IF k < 0 \/ k >= len
        THEN Raise(h, "IndexError")
        ELSE LET h1 == SetParent(h, c[k + 1], None)
                 h2 == SetParent(h1, item, ListNode(n))
             IN  Return(SetChildren(h2, n, [c EXCEPT ![k + 1] = item]))

\* NodeList.__setslice__(start, end, seq): the loop over
\* izip(self[start:end], seq).  The raise in the loop formats the undefined
\* name `item`, which is a NameError; self[idx] = new is __setitem__.
RECURSIVE SetSliceLoop(_, _, _, _, _)
SetSliceLoop(h, n, idx, olds, news) ==
    IF olds = <<>> \/ news = <<>>
    THEN Return(h)
    ELSE LET node == Head(olds)
             new  == Head(news)
         IN  IF h.parent[new] # None
             THEN Raise(h, "NameError")
             ELSE LET h1 == SetParent(h, node, None)
                      h2 == SetParent(h1, new, ListNode(n))
                      r  == NodeListSetItem(h2, n, idx, new)
                  IN  IF r.exc # "ok"
                      THEN r
                      ELSE SetSliceLoop(r.h, n, idx + 1, Tail(olds), Tail(news))

NodeListSetSlice(h, n, start, end, seq) ==
    SetSliceLoop(h, n, start, GetSlice(h.children[n], start, end), seq)

\* NodeList.replace(node, new): the first child equal to node (Node defines
\* no __eq__, so == is identity) is assigned through __setitem__.
FirstIndexOf(c, x) ==
    IF \E i \in 1 .. Len(c) : c[i] = x
    THEN CHOOSE i \in 1 .. Len(c) : c[i] = x /\ \A j \in 1 .. (i - 1) : c[j] # x
    ELSE 0

NodeListReplace(h, n, node, new) ==
    LET i == FirstIndexOf(h.children[n], node)
    IN  IF i = 0
        THEN Raise(h, NotInList)
        ELSE NodeListSetItem(h, n, i - 1, new)

\* NodeList.remove(item): `for idx, node in self` unpacks each child, which
\* iterates the child's own children (Node.__iter__): a child without exactly
\* two children raises ValueError; with two, idx is a Node, and
\* `del self[idx]` ends in list.pop(self, <Node>), a TypeError.
RECURSIVE RemoveLoop(_, _, _, _)
RemoveLoop(h, n, rest, item) ==
    IF rest = <<>>
    THEN Raise(h, NotInList)
    ELSE LET kids == h.children[Head(rest)]
         IN  IF Len(kids) # 2
             THEN Raise(h, UnpackError)
             ELSE IF kids[2] = item
             THEN Raise(h, "TypeError")
             ELSE RemoveLoop(h, n, Tail(rest), item)

NodeListRemove(h, n, item) == RemoveLoop(h, n, h.children[n], item)

\* -------------------------------------------------------------- inputs
\* Indexes and slice bounds a caller may pass for a list c: every index in
\* range, len itself (the first index out of range, and the slice bound that
\* means "the end"), and -(len + 1) (the first negative index out of range,
\* and a slice bound that is still negative after the interpreter adjusted
\* it).  Bounds further out behave like these after the clamps above.
Indexes(c) == (0 - Len(c) - 1) .. Len(c)
\* Sequences of 1 .. k nodes a caller may pass to extend and to slice
\* assignment.
SeqArgs(k) == UNION {[1 .. m -> Nodes] : m \in 1 .. k}

\* The longest sequence assigned to the slice c[i:j]: as long as the slice,
\* and one node for an empty slice.
SliceArgLen(c, i, j) ==
    LET k == Len(GetSlice(c, SliceAdjust(Len(c), i), SliceAdjust(Len(c), j)))
    IN  IF k = 0 THEN 1 ELSE k

\* The state a call leaves: the heap of its outcome r, and the call's name
\* and exception.
Apply(r, op) ==
    /\ parent' = r.h.parent
    /\ children' = r.h.children
    /\ last' = [op |-> op, exc |-> r.exc]
    /\ ops' = ops + 1
    /\ UNCHANGED <<fields, blob, result, engineVars>>

TheHeap == Heap(parent, children)

\* ------------------------------------------------- calls on child lists
\* n.children.append(x)
AppendCall(n, x) == Apply(NodeListAppend(TheHeap, n, x), "append")

\* n.children.insert(i, x)
InsertCall(n, i, x) == Apply(NodeListInsert(TheHeap, n, i, x), "insert")

\* n.children.extend(s)
ExtendCall(n, s) == Apply(NodeListExtend(TheHeap, n, s), "extend")

\* n.children.pop()
PopCall(n) == Apply(NodeListPop(TheHeap, n, <<>>), "pop")

\* n.children.pop(i)
PopIndexCall(n, i) == Apply(NodeListPop(TheHeap, n, <<i>>), "pop")

\* del n.children[i]
DelItemCall(n, i) == Apply(NodeListDelItem(TheHeap, n, i), "delitem")

\* del n.children[i:j]: the interpreter adjusts negative bounds by len()
\* and calls __delslice__.
DelSliceCall(n, i, j) ==
    LET len == Len(children[n])
    IN  Apply(NodeListDelSlice(TheHeap, n, SliceAdjust(len, i),
                               SliceAdjust(len, j)), "delslice")

\* n.children[i] = x
SetItemCall(n, i, x) == Apply(NodeListSetItem(TheHeap, n, i, x), "setitem")

\* n.children[i:j] = s: the interpreter adjusts negative bounds by len()
\* and calls __setslice__.
SetSliceCall(n, i, j, s) ==
    LET len == Len(children[n])
    IN  Apply(NodeListSetSlice(TheHeap, n, SliceAdjust(len, i),
                               SliceAdjust(len, j), s), "setslice")

\* n.children.replace(old, x)
ReplaceCall(n, old, x) == Apply(NodeListReplace(TheHeap, n, old, x), "replace")

\* n.children.remove(x)
RemoveCall(n, x) == Apply(NodeListRemove(TheHeap, n, x), "remove")

\* --------------------------------------------------------- node fields
\* Node.__init__, TextNode.__init__, DataNode.__init__, Fragment.__init__
NewNode(name, attributes) ==
    [cls |-> "Node", name |-> <<name>>, attributes |-> attributes,
     value |-> <<>>, callback_data |-> <<>>]
NewTextNode(value) ==
    [cls |-> "TextNode", name |-> <<>>, attributes |-> <<>>,
     value |-> <<value>>, callback_data |-> <<>>]
NewDataNode(value) ==
    [cls |-> "DataNode", name |-> <<>>, attributes |-> <<>>,
     value |-> <<value>>, callback_data |-> <<>>]
NewFragment ==
    [cls |-> "Fragment", name |-> <<>>, attributes |-> <<>>,
     value |-> <<>>, callback_data |-> <<>>]
\* Node.add_render_callback(identifier, data)
AddRenderCallback(f, identifier, data) ==
    [f EXCEPT !.callback_data =
        IF @ = <<>> THEN <<(<<(<<identifier, data>>)>>)>>
        ELSE <<Append(@[1], <<identifier, data>>)>>]

\* ------------------------------------------------------------- actions
\* The heap when the calls start: a document as convert_tree builds it by
\* appending to fresh nodes (parent None, empty child list).  FlatHeap is a
\* root (node 1) with MaxLen children, ChainHeap a root whose descendants
\* have one child each.
FlatHeap ==
    Heap([n \in Nodes |-> IF n \in 2 .. (MaxLen + 1) THEN 1 ELSE None],
         [n \in Nodes |-> IF n = 1 THEN [k \in 1 .. MaxLen |-> k + 1] ELSE <<>>])
ChainHeap ==
    Heap([n \in Nodes |-> IF n = 1 THEN None ELSE n - 1],
         [n \in Nodes |-> IF n = NumNodes THEN <<>> ELSE <<n + 1>>])


\* The fields of the nodes of such a document: a Fragment root, elements
\* (the first with an attribute and a render callback), a text leaf.
SampleFields ==
    [n \in Nodes |->
        IF n = 1 THEN NewFragment
        ELSE IF n = NumNodes THEN NewTextNode("x")
        ELSE IF n = 2
        THEN AddRenderCallback(NewNode("p", <<(<<"id", "a">>)>>), "cb", <<>>)
        ELSE NewNode("div", <<>>)]

\* No byte string stored, nothing loaded yet.
NoBlob == [data |-> <<>>, tree |-> None, corrupt |-> FALSE]
NoResult == [op |-> "none", exc |-> "ok", kind |-> "none", tree |-> <<>>]

\* A QueryResult: seq and tail are its generator (the nodes it yields from
\* its creation on, and the exception that ends it, "ok" when it just
\* stops), pos the number of nodes the generator has yielded so far, dead
\* whether it has finished, results the list _results, gen whether _gen
\* is not None.  made is FALSE as long as no query was made.
\* iters are the iterators iter(qr) has handed out and that are advanced
\* step by step: "none" not created, "new" created and never advanced,
\* "gen" suspended in the loop over _gen, "replay" suspended in the loop
\* over _results after yielding `at` nodes, "done" finished.
Iterators == {"a", "b"}
Iter(mode, at) == [mode |-> mode, at |-> at]
NoIters == [i \in Iterators |-> Iter("none", 0)]
NoQuery ==
    [made |-> FALSE, derived |-> FALSE, seq |-> <<>>, tail |-> "ok", pos |-> 0,
     dead |-> FALSE, results |-> <<>>, gen |-> FALSE, iters |-> NoIters]
\* QueryResult.__init__(gen)
NewQueryResult(seq, tail, derived) ==
    [made |-> TRUE, derived |-> derived, seq |-> seq, tail |-> tail, pos |-> 0,
     dead |-> FALSE, results |-> <<>>, gen |-> TRUE, iters |-> NoIters]
\* The application contexts parse runs in.
Apps == {"app1", "app2"}
\* No parse call made.
NoCall ==
    [app |-> "", input |-> "", reason |-> "", steps |-> <<>>, tree |-> <<>>]
\* No listener connected to the parser hooks, _parser_cache empty, no
\* MarkupParser constructed and no 'setup-markup-parser' emitted in any
\* context.
NoParsing ==
    [switch |-> <<>>, setup |-> <<>>, doctree |-> <<>>,
     cache |-> [a \in Apps |-> <<>>],
     constructed |-> [a \in Apps |-> 0],
     emitted |-> [a \in Apps |-> 0],
     call |-> NoCall]
\* No call made yet.
NoReturn ==
    [op |-> "none", exc |-> "ok", value |-> <<>>, node |-> None, rule |-> <<>>]

Init ==
    /\ \E h \in {FlatHeap, ChainHeap} :
           /\ parent = h.parent
           /\ children = h.children
    /\ last = [op |-> "init", exc |-> "ok"]
    /\ ops = 0
    /\ fields = SampleFields
    /\ blob = NoBlob
    /\ result = NoResult
    /\ qr = NoQuery
    /\ ret = NoReturn
    /\ listeners = <<>>
    /\ offered = <<>>
    /\ parsing = NoParsing

DoAppend ==
    \E n \in Nodes, x \in Nodes :
        /\ ops < MaxOps
        /\ Len(children[n]) < MaxLen
        /\ AppendCall(n, x)

DoInsert ==
    \E n \in Nodes, x \in Nodes : \E i \in Indexes(children[n]) :
        /\ ops < MaxOps
        /\ Len(children[n]) < MaxLen
        /\ InsertCall(n, i, x)

DoExtend ==
    \E n \in Nodes : \E s \in SeqArgs(MaxLen - Len(children[n])) :
        /\ ops < MaxOps
        /\ Len(children[n]) + Len(s) <= MaxLen
        /\ ExtendCall(n, s)

DoPop ==
    \E n \in Nodes :
        /\ ops < MaxOps
        /\ PopCall(n)

DoPopIndex ==
    \E n \in Nodes : \E i \in Indexes(children[n]) :
        /\ ops < MaxOps
        /\ PopIndexCall(n, i)

DoDelItem ==
    \E n \in Nodes : \E i \in Indexes(children[n]) :
        /\ ops < MaxOps
        /\ DelItemCall(n, i)

DoDelSlice ==
    \E n \in Nodes : \E i \in Indexes(children[n]), j \in Indexes(children[n]) :
        /\ ops < MaxOps
        /\ DelSliceCall(n, i, j)

DoSetItem ==
    \E n \in Nodes, x \in Nodes : \E i \in Indexes(children[n]) :
        /\ ops < MaxOps
        /\ SetItemCall(n, i, x)

DoSetSlice ==
    \E n \in Nodes : \E i \in Indexes(children[n]), j \in Indexes(children[n]) :
        \E s \in SeqArgs(SliceArgLen(children[n], i, j)) :
            /\ ops < MaxOps
            /\ SetSliceCall(n, i, j, s)

DoReplace ==
    \E n \in Nodes, old \in Nodes, x \in Nodes :
        /\ ops < MaxOps
        /\ ReplaceCall(n, old, x)

DoRemove ==
    \E n \in Nodes, x \in Nodes :
        /\ ops < MaxOps
        /\ RemoveCall(n, x)

Next ==
    \/ DoAppend
    \/ DoInsert
    \/ DoExtend
    \/ DoPop
    \/ DoPopIndex
    \/ DoDelItem
    \/ DoDelSlice
    \/ DoSetItem
    \/ DoSetSlice
    \/ DoReplace
    \/ DoRemove

Spec == Init /\ [][Next]_vars

\* ================================================================ codec
\* ------------------------------------------------------- Python values
\* The objects pickle sees: [t |-> type, v |-> payload].  A dict is the
\* sequence of its <<key, value>> pairs in iteration order.
PyNone == [t |-> "none", v |-> <<>>]
PyInt(i) == [t |-> "int", v |-> i]
PyStr(x) == [t |-> "str", v |-> x]
PyList(x) == [t |-> "list", v |-> x]
PyTuple(x) == [t |-> "tuple", v |-> x]
PyDict(x) == [t |-> "dict", v |-> x]
PyMark == [t |-> "mark", v |-> <<>>]
\* A slot no attribute was ever stored in.
PyUnset == [t |-> "unset", v |-> <<>>]

\* An optional value of a node field: <<>> is None, <<x>> is x.
PyOptStr(o) == IF o = <<>> THEN PyNone ELSE PyStr(o[1])
\* Node.attributes: a dict of strings.
PyAttributes(a) ==
    PyDict([k \in 1 .. Len(a) |-> <<PyStr(a[k][1]), PyStr(a[k][2])>>])
\* Node.callback_data: None or a list of (identifier, data) tuples.
PyCallbackData(o) ==
    IF o = <<>>
    THEN PyNone
    ELSE PyList([k \in 1 .. Len(o[1]) |->
                    PyTuple(<<PyStr(o[1][k][1]), PyOptStr(o[1][k][2])>>)])

\* _node_members, _node_types, _node_types_reverse
NodeMembers == <<"name", "attributes", "value", "callback_data">>
NodeTypesReverse == <<"Node", "TextNode", "DataNode", "Fragment">>
NodeTypes(cls) == CHOOSE k \in 0 .. 3 : NodeTypesReverse[k + 1] = cls

\* Node.__nonzero__: children or attributes or callback_data or value
NodeNonzero(kids, f) ==
    \/ kids # <<>>
    \/ f.attributes # <<>>
    \/ (f.callback_data # <<>> /\ f.callback_data[1] # <<>>)
    \/ (f.value # <<>> /\ f.value[1] # "")

\* ------------------------------------------------------------- pickle
\* The byte string is the sequence of its opcodes, each with its argument
\* (a string; "" when the opcode has none).  Memo opcodes are left out: no
\* object of a dumped tree is pickled twice.
Tok(op, arg) == [op |-> op, arg |-> arg]
Digits == <<"0", "1", "2", "3", "4", "5", "6", "7", "8", "9">>
IntArg(i) == Digits[i + 1]
ArgInt(a) == (CHOOSE k \in 1 .. Len(Digits) : Digits[k] = a) - 1

RECURSIVE Flatten(_)
Flatten(ss) == IF ss = <<>> THEN <<>> ELSE Head(ss) \o Flatten(Tail(ss))

\* Pickler.save for the types walk() produces (protocol 2): save_int,
\* save_none, save_unicode, save_tuple, save_list with _batch_appends,
\* save_dict with _batch_setitems.
RECURSIVE Save(_)
Save(x) ==
    CASE x.t = "int" -> <<Tok("BININT1", IntArg(x.v))>>
      [] x.t = "none" -> <<Tok("NONE", "")>>
      [] x.t = "str" -> <<Tok("BINUNICODE", x.v)>>
      [] x.t = "tuple" ->
            IF x.v = <<>>
            THEN <<Tok("EMPTY_TUPLE", "")>>
            ELSE Flatten([k \in 1 .. Len(x.v) |-> Save(x.v[k])])
                 \o <<Tok(<<"TUPLE1", "TUPLE2", "TUPLE3">>[Len(x.v)], "")>>
      [] x.t = "list" ->
            <<Tok("EMPTY_LIST", "")>>
            \o (IF x.v = <<>> THEN <<>>
                ELSE IF Len(x.v) = 1 THEN Save(x.v[1]) \o <<Tok("APPEND", "")>>
                ELSE <<Tok("MARK", "")>>
                     \o Flatten([k \in 1 .. Len(x.v) |-> Save(x.v[k])])
                     \o <<Tok("APPENDS", "")>>)
      [] x.t = "dict" ->
            <<Tok("EMPTY_DICT", "")>>
            \o (IF x.v = <<>> THEN <<>>
                ELSE IF Len(x.v) = 1
                THEN Save(x.v[1][1]) \o Save(x.v[1][2]) \o <<Tok("SETITEM", "")>>
                ELSE <<Tok("MARK", "")>>
                     \o Flatten([k \in 1 .. Len(x.v) |->
                                    Save(x.v[k][1]) \o Save(x.v[k][2])])
                     \o <<Tok("SETITEMS", "")>>)

\* pickle.dumps(obj, 2)
PickleDumps(x) == <<Tok("PROTO", "2")>> \o Save(x) \o <<Tok("STOP", "")>>

\* ----------------------------------------------------------- unpickle
\* The unpickler's stack machine.  A step returns the new stack, the
\* exception it raised ("ok" when none) and whether STOP returned.
Going(stack) == [stack |-> stack, exc |-> "ok", stop |-> FALSE]
Failed(exc) == [stack |-> <<>>, exc |-> exc, stop |-> FALSE]
Stopped(stack) == [stack |-> stack, exc |-> "ok", stop |-> TRUE]

Top(stack) == stack[Len(stack)]
Pop(stack) == SubSeq(stack, 1, Len(stack) - 1)
\* Unpickler.marker: the position of the topmost mark, 0 when there is none
\* (the search then runs off the stack with an IndexError).
Marker(stack) ==
    IF \E k \in 1 .. Len(stack) : stack[k].t = "mark"
    THEN CHOOSE k \in 1 .. Len(stack) :
            /\ stack[k].t = "mark"
            /\ \A m \in (k + 1) .. Len(stack) : stack[m].t # "mark"
    ELSE 0
\* stack[mark - 1]: Python reads index -1, the top, when the mark is lowest.
BelowMark(stack, mk) == IF mk = 1 THEN Len(stack) ELSE mk - 1

\* hash(key): lists and dicts are unhashable, a tuple hashes its items.
RECURSIVE Hashable(_)
Hashable(x) ==
    CASE x.t \in {"list", "dict"} -> FALSE
      [] x.t = "tuple" -> \A k \in 1 .. Len(x.v) : Hashable(x.v[k])
      [] OTHER -> TRUE

\* target[key] = value: the new target, or the exception raised
SetItem(target, key, value) ==
    CASE target.t = "dict" ->
            IF ~Hashable(key) THEN [exc |-> "TypeError", obj |-> target]
            ELSE IF \E k \in 1 .. Len(target.v) : target.v[k][1] = key
            THEN [exc |-> "ok",
                  obj |-> PyDict([k \in 1 .. Len(target.v) |->
                            IF target.v[k][1] = key
                            THEN <<key, value>> ELSE target.v[k]])]
            ELSE [exc |-> "ok", obj |-> PyDict(Append(target.v, <<key, value>>))]
      [] target.t = "list" ->
            IF key.t # "int" THEN [exc |-> "TypeError", obj |-> target]
            ELSE IF PyIndex(Len(target.v), key.v) \notin 0 .. (Len(target.v) - 1)
            THEN [exc |-> "IndexError", obj |-> target]
            ELSE [exc |-> "ok",
                  obj |-> PyList([target.v EXCEPT
                                    ![PyIndex(Len(target.v), key.v) + 1] = value])]
      [] OTHER -> [exc |-> "TypeError", obj |-> target]

\* load_setitems' loop: for i in range(mark + 1, len(stack), 2):
\*                          dict[stack[i]] = stack[i + 1]
RECURSIVE SetItems(_, _)
SetItems(target, items) ==
    IF items = <<>> THEN [exc |-> "ok", obj |-> target]
    ELSE IF Len(items) = 1 THEN [exc |-> "IndexError", obj |-> target]
    ELSE LET r == SetItem(target, items[1], items[2])
         IN IF r.exc # "ok" THEN r
            ELSE SetItems(r.obj, SubSeq(items, 3, Len(items)))

\* Unpickler.dispatch[key](self) for one opcode
Dispatch(tok, stack) ==
    CASE tok.op = "PROTO" ->
            IF tok.arg \in {"0", "1", "2"} THEN Going(stack)
            ELSE Failed("ValueError")
      [] tok.op = "BININT1" -> Going(Append(stack, PyInt(ArgInt(tok.arg))))
      [] tok.op = "NONE" -> Going(Append(stack, PyNone))
      [] tok.op = "BINUNICODE" -> Going(Append(stack, PyStr(tok.arg)))
      [] tok.op = "EMPTY_TUPLE" -> Going(Append(stack, PyTuple(<<>>)))
      [] tok.op = "EMPTY_LIST" -> Going(Append(stack, PyList(<<>>)))
      [] tok.op = "EMPTY_DICT" -> Going(Append(stack, PyDict(<<>>)))
      [] tok.op = "MARK" -> Going(Append(stack, PyMark))
      [] tok.op \in {"TUPLE1", "TUPLE2", "TUPLE3"} ->
            LET k == IF tok.op = "TUPLE1" THEN 1
                     ELSE IF tok.op = "TUPLE2" THEN 2 ELSE 3
                len == Len(stack)
            IN IF len < k THEN Failed("IndexError")
               ELSE Going(Append(SubSeq(stack, 1, len - k),
                                 PyTuple(SubSeq(stack, len - k + 1, len))))
      [] tok.op = "APPEND" ->
            IF Len(stack) < 2 THEN Failed("IndexError")
            ELSE LET value == Top(stack)
                     list == Top(Pop(stack))
                 IN IF list.t # "list" THEN Failed("AttributeError")
                    ELSE Going(Append(Pop(Pop(stack)),
                                      PyList(Append(list.v, value))))
      [] tok.op = "APPENDS" ->
            LET mk == Marker(stack)
                list == stack[BelowMark(stack, mk)]
            IN IF mk = 0 THEN Failed("IndexError")
               ELSE IF list.t # "list" THEN Failed("AttributeError")
               ELSE IF mk = 1 THEN Going(<<>>)
               ELSE Going(Append(SubSeq(stack, 1, mk - 2),
                                 PyList(list.v \o SubSeq(stack, mk + 1, Len(stack)))))
      [] tok.op = "SETITEM" ->
            IF Len(stack) < 3 THEN Failed("IndexError")
            ELSE LET value == Top(stack)
                     key == Top(Pop(stack))
                     r == SetItem(Top(Pop(Pop(stack))), key, value)
                 IN IF r.exc # "ok" THEN Failed(r.exc)
                    ELSE Going(Append(Pop(Pop(Pop(stack))), r.obj))
      [] tok.op = "SETITEMS" ->
            LET mk == Marker(stack)
                r == SetItems(stack[BelowMark(stack, mk)],
                              SubSeq(stack, mk + 1, Len(stack)))
            IN IF mk = 0 THEN Failed("IndexError")
               ELSE IF r.exc # "ok" THEN Failed(r.exc)
               ELSE IF mk = 1 THEN Going(<<>>)
               ELSE Going(Append(SubSeq(stack, 1, mk - 2), r.obj))
      [] tok.op = "STOP" ->
            IF stack = <<>> THEN Failed("IndexError") ELSE Stopped(stack)
      [] OTHER -> Failed("KeyError")

\* Unpickler.load: read opcodes until STOP returns the top of the stack;
\* running out of bytes raises EOFError.
RECURSIVE UnpicklerLoad(_, _)
UnpicklerLoad(data, stack) ==
    IF data = <<>> THEN [exc |-> "EOFError", obj |-> PyNone]
    ELSE LET r == Dispatch(Head(data), stack)
         IN IF r.exc # "ok" THEN [exc |-> r.exc, obj |-> PyNone]
            ELSE IF r.stop THEN [exc |-> "ok", obj |-> Top(r.stack)]
            ELSE UnpicklerLoad(Tail(data), r.stack)

\* pickle.loads(data)
PickleLoads(data) == UnpicklerLoad(data, <<>>)

\* ---------------------------------------------------------- dump_tree
\* dump_tree's walk(node): (type number, [walk(n) for n in children],
\* [getattr(node, x) for x in _node_members])
RECURSIVE DumpWalk(_, _, _)
DumpWalk(h, f, n) ==
    PyTuple(<<PyInt(NodeTypes(f[n].cls)),
              PyList([k \in 1 .. Len(h.children[n]) |->
                         DumpWalk(h, f, h.children[n][k])]),
              PyList(<<PyOptStr(f[n].name), PyAttributes(f[n].attributes),
                       PyOptStr(f[n].value),
                       PyCallbackData(f[n].callback_data)>>)>>)

\* dump_tree(tree): '' for a tree that is false, else the pickled walk
DumpTree(h, f, tree) ==
    IF ~NodeNonzero(h.children[tree], f[tree])
    THEN <<>>
    ELSE PickleDumps(DumpWalk(h, f, tree))

\* ---------------------------------------------------------- load_tree
\* A loaded tree is a heap of its own: a function from the position of a
\* node (the path of child indexes from the root) to the node's slots.
\* parent is a reference: None, a node, or (when a fourth positional
\* argument reached the outermost walk) the object that was passed.
NoneRef == [kind |-> "none", path |-> <<>>]
NodeRef(path) == [kind |-> "node", path |-> path]
ObjectRef == [kind |-> "object", path |-> <<>>]

\* iter(x): the items of an iterable, TypeError for anything else.  A dict
\* yields its keys, a str its characters (character k of x is kept as the
\* pair of x and k).
Iterate(x) ==
    CASE x.t \in {"list", "tuple"} -> [exc |-> "ok", items |-> x.v]
      [] x.t = "dict" ->
            [exc |-> "ok", items |-> [k \in 1 .. Len(x.v) |-> x.v[k][1]]]
      [] x.t = "str" ->
            [exc |-> "ok",
             items |-> [k \in 1 .. Len(x.v) |-> [t |-> "char", v |-> <<x.v, k>>]]]
      [] x.t = "char" -> [exc |-> "ok", items |-> <<x>>]
      [] OTHER -> [exc |-> "TypeError", items |-> <<>>]

\* for key, value in izip(_node_members, attr): setattr(node, key, value)
Member(items, k) == IF k <= Len(items) THEN items[k] ELSE PyUnset

\* A walk that forgets "node.parent = parent".
LoadedNodeNoParent(cls, par, path, nkids, items) ==
    [cls |-> cls, parent |-> NoneRef,
     children |-> [k \in 1 .. nkids |-> Append(path, k)], node |-> path,
     name |-> Member(items, 1), attributes |-> Member(items, 2),
     value |-> Member(items, 3), callback_data |-> Member(items, 4)]

LoadedNode(cls, par, path, nkids, items) ==
    [cls |-> cls, parent |-> par,
     children |-> [k \in 1 .. nkids |-> Append(path, k)], node |-> path,
     name |-> Member(items, 1), attributes |-> Member(items, 2),
     value |-> Member(items, 3), callback_data |-> Member(items, 4)]

\* load_tree's walk(node_type, children, attr, parent=None), called with the
\* positional arguments args; nested is TRUE for walk(parent=node, *x).
\* Returns the exception raised, or the nodes built at and below path.
RECURSIVE LoadWalk(_, _, _, _)
RECURSIVE LoadChildren(_, _, _)
LoadChildren(xs, k, path) ==
    IF k > Len(xs) THEN [exc |-> "ok", heap |-> <<>>]
    ELSE LET it == Iterate(xs[k])
             r == LoadWalk(it.items, NodeRef(path), Append(path, k), TRUE)
             rest == LoadChildren(xs, k + 1, path)
         IN IF it.exc # "ok" THEN [exc |-> it.exc, heap |-> <<>>]
            ELSE IF r.exc # "ok" THEN r
            ELSE IF rest.exc # "ok" THEN rest
            ELSE [exc |-> "ok", heap |-> r.heap @@ rest.heap]
LoadWalk(args, par, path, nested) ==
    LET argc == Len(args)
        node_type == args[1]
        owner == IF argc = 4
                 THEN (IF args[4].t = "none" THEN NoneRef ELSE ObjectRef)
                 ELSE par
        idx == PyIndex(Len(NodeTypesReverse), node_type.v)
        kids == Iterate(args[2])
        sub == LoadChildren(kids.items, 1, path)
        attr == Iterate(args[3])
    IN IF argc < 3 \/ argc > 4 \/ (nested /\ argc = 4)
       THEN [exc |-> "TypeError", heap |-> <<>>]
       ELSE IF node_type.t # "int" THEN [exc |-> "TypeError", heap |-> <<>>]
       ELSE IF idx \notin 0 .. (Len(NodeTypesReverse) - 1)
       THEN [exc |-> "IndexError", heap |-> <<>>]
       ELSE IF kids.exc # "ok" THEN [exc |-> kids.exc, heap |-> <<>>]
       ELSE IF sub.exc # "ok" THEN sub
       ELSE IF attr.exc # "ok" THEN [exc |-> attr.exc, heap |-> <<>>]
       ELSE [exc |-> "ok",
             heap |-> (path :> LoadedNode(NodeTypesReverse[idx + 1], owner,
                                          path, Len(kids.items), attr.items))
                       @@ sub.heap]

\* Fragment(): Node.__init__(self, None)
EmptyFragment ==
    <<>> :> [cls |-> "Fragment", parent |-> NoneRef, children |-> <<>>,
             node |-> <<>>, name |-> PyNone, attributes |-> PyDict(<<>>),
             value |-> PyNone, callback_data |-> PyNone]

\* What a call hands back: the exception that left it ("ok" when it
\* returned) and the returned object, a tree or a plain dict.
Returned(kind, tree) == [exc |-> "ok", kind |-> kind, tree |-> tree]
Raised(exc) == [exc |-> exc, kind |-> "none", tree |-> <<>>]

\* load_tree(data)
LoadTree(data) ==
    IF data = <<>> THEN Returned("tree", EmptyFragment)
    ELSE LET p == PickleLoads(data)
             it == Iterate(p.obj)
             w == LoadWalk(it.items, NoneRef, <<>>, FALSE)
         IN IF p.exc # "ok" THEN Raised(p.exc)
            ELSE IF it.exc # "ok" THEN Raised(it.exc)
            ELSE IF w.exc # "ok" THEN Raised(w.exc)
            ELSE Returned("tree", w.heap)

\* zine.utils.zeml.load_parser_data is not part of the sources at hand; it
\* is taken to be the codec's load, as the specification describes it.
LoadParserData(value) == LoadTree(value)

\* ZEMLParserData.process_result_value: only a ValueError is caught, and
\* the value returned for it is an empty dict.
ProcessResultValue(value) ==
    LET r == LoadParserData(value)
    IN IF r.exc = "ValueError" THEN Returned("dict", <<>>) ELSE r

\* ------------------------------------------------------ codec actions
\* The fields a node of a dumped tree can have: the four variants, with
\* and without attributes, value and callbacks.
Kinds ==
    { NewNode("div", <<>>),
      NewNode("p", <<(<<"id", "a">>)>>),
      NewNode("a", <<(<<"href", "u">>), (<<"class", "c">>)>>),
      AddRenderCallback(NewNode("div", <<>>), "cb", <<>>),
      AddRenderCallback(AddRenderCallback(NewNode("div", <<>>), "cb", <<"d">>),
                        "toc", <<>>),
      NewTextNode(""),
      NewTextNode("x"),
      NewDataNode("d"),
      NewFragment }

\* A byte that is no opcode, a protocol number pickle does not know, and
\* opcodes that change the shape or the type of what is decoded.
GarbleTokens ==
    { Tok("?", ""), Tok("PROTO", "9"), Tok("TUPLE2", ""), Tok("NONE", ""),
      Tok("STOP", "") }

\* data = dump_tree(tree), for any node of the heap as the tree
DoDumpTree ==
    \E tree \in Nodes :
        /\ blob' = [data |-> DumpTree(TheHeap, fields, tree),
                    tree |-> tree, corrupt |-> FALSE]
        /\ result' = NoResult
        /\ UNCHANGED <<parent, children, last, ops, fields, engineVars>>

\* The stored bytes lose their tail.
DoTruncate ==
    \E k \in 0 .. (Len(blob.data) - 1) :
        /\ ~blob.corrupt
        /\ blob' = [blob EXCEPT !.data = SubSeq(blob.data, 1, k),
                                !.corrupt = TRUE]
        /\ result' = NoResult
        /\ UNCHANGED <<parent, children, last, ops, fields, engineVars>>

\* One of the stored opcodes is overwritten.
DoGarble ==
    \E k \in 1 .. Len(blob.data) : \E tok \in GarbleTokens :
        /\ ~blob.corrupt
        /\ tok # blob.data[k]
        /\ blob' = [blob EXCEPT !.data = [blob.data EXCEPT ![k] = tok],
                                !.corrupt = TRUE]
        /\ result' = NoResult
        /\ UNCHANGED <<parent, children, last, ops, fields, engineVars>>

Outcome(op, r) == [op |-> op, exc |-> r.exc, kind |-> r.kind, tree |-> r.tree]

\* load_tree(data)
DoLoadTree ==
    /\ result' = Outcome("load_tree", LoadTree(blob.data))
    /\ UNCHANGED <<parent, children, last, ops, fields, blob, engineVars>>

\* ZEMLParserData.process_result_value(data, dialect)
DoProcessResultValue ==
    /\ result' = Outcome("process_result_value", ProcessResultValue(blob.data))
    /\ UNCHANGED <<parent, children, last, ops, fields, blob, engineVars>>

\* Dumping and loading trees of every kind of node.
InitCodec ==
    /\ \E h \in {FlatHeap, ChainHeap} :
           /\ parent = h.parent
           /\ children = h.children
    /\ last = [op |-> "init", exc |-> "ok"]
    /\ ops = 0
    /\ fields \in [Nodes -> Kinds]
    /\ blob = NoBlob
    /\ result = NoResult
    /\ qr = NoQuery
    /\ ret = NoReturn
    /\ listeners = <<>>
    /\ offered = <<>>
    /\ parsing = NoParsing

NextCodec ==
    \/ DoDumpTree
    \/ DoLoadTree
    \/ DoProcessResultValue

SpecCodec == InitCodec /\ [][NextCodec]_vars

\* Storing a document, damaging the stored bytes, loading them again.
NextCorrupt ==
    \/ DoDumpTree
    \/ DoTruncate
    \/ DoGarble
    \/ DoLoadTree
    \/ DoProcessResultValue

SpecCorrupt == Init /\ [][NextCorrupt]_vars

\* ================================================================ query
\* ------------------------------------------------------------- strings
\* A rule is the sequence of its symbols: the characters that _query looks
\* for ("/", "[", "]", "=", "!", "@", "#", "+", "*") one by one, and every
\* run of other characters as one word.  A plain string (a node name, an
\* attribute key or value) is the one-word sequence.
Str(word) == IF word = "" THEN <<>> ELSE <<word>>

\* s.startswith(c), s.endswith(c), c in s
StartsWith(s, c) == s # <<>> /\ s[1] = c
EndsWith(s, c) == s # <<>> /\ s[Len(s)] = c
Contains(s, c) == \E k \in 1 .. Len(s) : s[k] = c
\* s.index(c), counted from 1; 0 when c is not in s (str.index raises
\* ValueError then)
IndexOf(s, c) ==
    IF Contains(s, c)
    THEN CHOOSE k \in 1 .. Len(s) :
            s[k] = c /\ \A m \in 1 .. (k - 1) : s[m] # c
    ELSE 0
\* '!=' in s
ContainsNotEqual(s) == \E k \in 1 .. (Len(s) - 1) : s[k] = "!" /\ s[k + 1] = "="
\* s.split(c): every piece between two occurrences of c
RECURSIVE Split(_, _)
Split(s, c) ==
    IF ~Contains(s, c) THEN <<s>>
    ELSE <<SubSeq(s, 1, IndexOf(s, c) - 1)>>
         \o Split(SubSeq(s, IndexOf(s, c) + 1, Len(s)), c)
\* s.split('!='): every piece between two occurrences of '!='
RECURSIVE SplitNotEqual(_)
SplitNotEqual(s) ==
    IF ~ContainsNotEqual(s) THEN <<s>>
    ELSE LET k == CHOOSE k \in 1 .. (Len(s) - 1) :
                    /\ s[k] = "!" /\ s[k + 1] = "="
                    /\ \A m \in 1 .. (k - 1) : ~(s[m] = "!" /\ s[m + 1] = "=")
         IN <<SubSeq(s, 1, k - 1)>> \o SplitNotEqual(SubSeq(s, k + 2, Len(s)))
\* s.split('/', 1): split at the first '/' only
SplitOnce(s) ==
    IF ~Contains(s, "/") THEN <<s>>
    ELSE <<SubSeq(s, 1, IndexOf(s, "/") - 1),
           SubSeq(s, IndexOf(s, "/") + 1, Len(s))>>

\* ------------------------------------------------------ bracket tests
\* x.attributes.get(key) == value, key and value being pieces of the rule
AttrEquals(attributes, key, value) ==
    \E k \in 1 .. Len(attributes) :
        Str(attributes[k][1]) = key /\ Str(attributes[k][2]) = value
\* key in x.attributes
AttrHas(attributes, key) ==
    \E k \in 1 .. Len(attributes) : Str(attributes[k][1]) = key

\* The test a bracket rule is compiled to: the branches are tried in the
\* order of the code ('=' before '!='), and unpacking "key, value" needs
\* exactly two pieces.
NoTest == [exc |-> "ok", kind |-> "none", key |-> <<>>, value |-> <<>>]
CompileTest(rule) ==
    IF Contains(rule, "=")
    THEN IF Len(Split(rule, "=")) # 2
         THEN [exc |-> "ValueError", kind |-> "none", key |-> <<>>, value |-> <<>>]
         ELSE [exc |-> "ok", kind |-> "eq",
               key |-> Split(rule, "=")[1], value |-> Split(rule, "=")[2]]
    ELSE IF ContainsNotEqual(rule)
    THEN IF Len(SplitNotEqual(rule)) # 2
         THEN [exc |-> "ValueError", kind |-> "none", key |-> <<>>, value |-> <<>>]
         ELSE [exc |-> "ok", kind |-> "ne",
               key |-> SplitNotEqual(rule)[1], value |-> SplitNotEqual(rule)[2]]
    ELSE IF StartsWith(rule, "!")
    THEN [exc |-> "ok", kind |-> "absent", key |-> Tail(rule), value |-> <<>>]
    ELSE IF StartsWith(rule, "@")
    THEN [exc |-> "ok", kind |-> "present", key |-> Tail(rule), value |-> <<>>]
    ELSE [exc |-> "ValueError", kind |-> "none", key |-> <<>>, value |-> <<>>]

\* test(x)
Test(t, f) ==
    CASE t.kind = "eq" -> AttrEquals(f.attributes, t.key, t.value)
      [] t.kind = "ne" -> ~AttrEquals(f.attributes, t.key, t.value)
      [] t.kind = "absent" -> ~AttrHas(f.attributes, t.key)
      [] t.kind = "present" -> AttrHas(f.attributes, t.key)
      [] OTHER -> TRUE

\* The first segment of a rule: its name part, its test, and the rest of
\* the rule (<<>> when there is none: "parts and parts.pop() or None").
ParseSegment(rule) ==
    LET parts == SplitOnce(rule)
        part == parts[1]
        rest == IF Len(parts) = 2 THEN parts[2] ELSE <<>>
        idx == IndexOf(part, "[")
    IN IF ~EndsWith(part, "]")
       THEN [exc |-> "ok", part |-> part, test |-> NoTest, rest |-> rest]
       ELSE IF idx = 0
       THEN [exc |-> "ValueError", part |-> part, test |-> NoTest, rest |-> rest]
       ELSE LET t == CompileTest(SubSeq(part, idx + 1, Len(part) - 1))
            IN [exc |-> t.exc, part |-> SubSeq(part, 1, idx - 1),
                test |-> t, rest |-> rest]

\* A name filter that does not know '+'.
PartKeepsNoPlus(part, f) ==
    IF part = <<"#">> THEN f.value # <<>>
    ELSE IF part = <<"*">> THEN TRUE
    ELSE f.name # <<>> /\ Str(f.name[1]) = part

\* The name filter of a segment: '#', '+', '*' or a literal name
PartKeeps(part, f) ==
    IF part = <<"#">> THEN f.value # <<>>
    ELSE IF part = <<"+">> THEN f.value = <<>>
    ELSE IF part = <<"*">> THEN TRUE
    ELSE f.name # <<>> /\ Str(f.name[1]) = part

\* -------------------------------------------------------------- _query
\* The nodes of seq that are not in seen, each once, in order.
RECURSIVE Unseen(_, _)
Unseen(seq, seen) ==
    IF seq = <<>> THEN <<>>
    ELSE IF Head(seq) \in seen THEN Unseen(Tail(seq), seen)
    ELSE <<Head(seq)>> \o Unseen(Tail(seq), seen \cup {Head(seq)})

\* _iter_all(nodes): every node not seen yet, followed by those of its
\* children that were not seen yet.
RECURSIVE IterAll(_, _, _)
IterAll(h, nodes, seen) ==
    IF nodes = <<>> THEN <<>>
    ELSE IF Head(nodes) \in seen THEN IterAll(h, Tail(nodes), seen)
    ELSE LET node == Head(nodes)
             kids == Unseen(h.children[node], seen \cup {node})
         IN <<node>> \o kids
            \o IterAll(h, Tail(nodes),
                       seen \cup {node} \cup {kids[k] : k \in 1 .. Len(kids)})

\* What _query hands back: the exception raised by the call itself, or the
\* generator of a QueryResult, given by the nodes it yields and the
\* exception that ends it ("ok": it just stops).
QueryRaised(exc) == [exc |-> exc, items |-> <<>>, tail |-> "ok"]
QueryGen(items, tail) == [exc |-> "ok", items |-> items, tail |-> tail]

\* _query(nodes, rule) and its traverse(): Query is the call, Traverse the
\* generator running over the nodes the first segment kept.
RECURSIVE Query(_, _, _, _)
RECURSIVE Traverse(_, _, _, _)
Traverse(h, f, nodes, rest) ==
    IF nodes = <<>> THEN QueryGen(<<>>, "ok")
    ELSE LET sub == Query(h, f, h.children[Head(nodes)], rest)
             more == Traverse(h, f, Tail(nodes), rest)
         IN IF sub.exc # "ok" THEN QueryGen(<<>>, sub.exc)
            ELSE IF sub.tail # "ok" THEN QueryGen(sub.items, sub.tail)
            ELSE QueryGen(sub.items \o more.items, more.tail)
Query(h, f, nodes, rule) ==
    LET direct == StartsWith(rule, "/")
        seg == ParseSegment(IF direct THEN Tail(rule) ELSE rule)
        cands == IF direct THEN nodes ELSE IterAll(h, nodes, {})
        Keep(x) == PartKeeps(seg.part, f[x]) /\ Test(seg.test, f[x])
        kept == SelectSeq(cands, Keep)
    IN IF seg.exc # "ok" THEN QueryRaised(seg.exc)
       ELSE IF seg.rest # <<>> THEN Traverse(h, f, kept, seg.rest)
       ELSE QueryGen(kept, "ok")

\* A query that always expands its context, leading '/' or not.
NodeQueryExpanding(h, f, n, rule) ==
    Query(h, f, IterAll(h, h.children[n], {}), rule)

\* Node.query(rule)
NodeQuery(h, f, n, rule) == Query(h, f, h.children[n], rule)

\* --------------------------------------------------------- QueryResult
\* The nodes the generator has not yielded yet.
Remaining(q) == IF q.dead THEN <<>> ELSE SubSeq(q.seq, q.pos + 1, Len(q.seq))

\* What running an iterator of QueryResult.__iter__ gives: the QueryResult
\* afterwards, the nodes yielded, the exception that left the iterator.
Ran(q, yielded, exc) == [q |-> q, yielded |-> yielded, exc |-> exc]

\* QueryResult.__iter__ run to its end: a finished QueryResult replays
\* _results; otherwise the rest of the generator is appended to _results
\* and yielded, and _gen is set to None unless the generator raised.
IterToEnd(q) ==
    IF ~q.gen THEN Ran(q, q.results, "ok")
    ELSE LET rem == Remaining(q)
             q1 == [q EXCEPT !.results = @ \o rem, !.pos = @ + Len(rem),
                             !.dead = TRUE]
         IN IF ~q.dead /\ q.tail # "ok"
            THEN Ran(q1, rem, q.tail)
            ELSE Ran([q1 EXCEPT !.gen = FALSE], rem, "ok")

\* QueryResult.__iter__ left after k nodes (there are at least k to yield):
\* the iterator stays suspended at its yield, _gen is untouched.
IterTake(q, k) ==
    IF ~q.gen THEN Ran(q, SubSeq(q.results, 1, k), "ok")
    ELSE LET got == SubSeq(Remaining(q), 1, k)
         IN Ran([q EXCEPT !.results = @ \o got, !.pos = @ + k], got, "ok")

\* The number of nodes a new iterator can yield.
Available(q) == IF q.gen THEN Len(Remaining(q)) ELSE Len(q.results)

\* What a call on a QueryResult gives: the QueryResult afterwards, the
\* exception raised, the value returned (a sequence of nodes).
Gave(q, exc, value) == [q |-> q, exc |-> exc, value |-> value]

\* QueryResult._fetchall
FetchAll(q) == IF q.gen THEN IterToEnd(q) ELSE Ran(q, <<>>, "ok")

\* An index access that reads a negative index from _results as it is.
GetItemNoFetch(q, idx) ==
    LET len == Len(q.results)
        need == idx - len + 1
        rest == IterToEnd(q)
    IN IF ~q.gen \/ idx < len
       THEN IF PyIndex(len, idx) \in 0 .. (len - 1)
            THEN Gave(q, "ok", <<q.results[PyIndex(len, idx) + 1]>>)
            ELSE Gave(q, "IndexError", <<>>)
       ELSE IF Len(Remaining(q)) >= need
       THEN Gave(IterTake(q, need).q, "ok", <<Remaining(q)[need]>>)
       ELSE Gave(rest.q, IF rest.exc # "ok" THEN rest.exc ELSE "IndexError", <<>>)

\* QueryResult.__getitem__(idx)
GetItem(q, idx) ==
    LET f == IF idx < 0 THEN FetchAll(q) ELSE Ran(q, <<>>, "ok")
        q1 == f.q
        len == Len(q1.results)
        need == idx - len + 1
        rest == IterToEnd(q1)
    IN IF f.exc # "ok" THEN Gave(q1, f.exc, <<>>)
       ELSE IF ~q1.gen \/ idx < len
       THEN IF PyIndex(len, idx) \in 0 .. (len - 1)
            THEN Gave(q1, "ok", <<q1.results[PyIndex(len, idx) + 1]>>)
            ELSE Gave(q1, "IndexError", <<>>)
       ELSE IF Len(Remaining(q1)) >= need
       THEN Gave(IterTake(q1, need).q, "ok", <<Remaining(q1)[need]>>)
       ELSE Gave(rest.q, IF rest.exc # "ok" THEN rest.exc ELSE "IndexError", <<>>)

\* QueryResult.first, QueryResult.last
First(q) == GetItem(q, 0)
Last(q) == GetItem(q, 0 - 1)

\* QueryResult.__len__: the length is handed back as a sequence of that
\* many nodes, _results itself.
QueryLen(q) ==
    LET f == FetchAll(q)
    IN IF f.exc # "ok" THEN Gave(f.q, f.exc, <<>>)
       ELSE Gave(f.q, "ok", f.q.results)

\* QueryResult.query(rule): _query(self, rule).  The nodes _query runs
\* over are those a new iterator of the QueryResult yields; the exception
\* that ends this iterator ends the new generator.
ResultQuery(h, f, q, rule) ==
    LET members == IterToEnd(q)
        r == Query(h, f, members.yielded, rule)
    IN IF r.exc # "ok" \/ r.tail # "ok" THEN r
       ELSE QueryGen(r.items, members.exc)

\* ------------------------------------------ iterators advanced by hand
\* iter(qr): a generator object of QueryResult.__iter__ whose body has not
\* started; the iterator the name held before is dropped.
OpenIter(q, i) == [q EXCEPT !.iters[i] = Iter("new", 0)]

\* One step of the loop `for item in self._gen`, as it would be without
\* the append to _results.
GenStepNoMemo(q, i) ==
    IF q.dead \/ q.pos = Len(q.seq)
    THEN IF ~q.dead /\ q.tail # "ok"
         THEN Gave([q EXCEPT !.dead = TRUE, !.iters[i] = Iter("done", 0)],
                   q.tail, <<>>)
         ELSE Gave([q EXCEPT !.dead = TRUE, !.gen = FALSE,
                             !.iters[i] = Iter("done", 0)],
                   "StopIteration", <<>>)
    ELSE Gave([q EXCEPT !.pos = @ + 1, !.iters[i] = Iter("gen", 0)],
              "ok", <<q.seq[q.pos + 1]>>)

\* One step of the loop `for item in self._gen`: the next node of the
\* generator is appended to _results and yielded; when the generator stops
\* _gen is set to None and the iterator ends; when it raises, the exception
\* ends the iterator and _gen stays.
GenStep(q, i) ==
    IF q.dead \/ q.pos = Len(q.seq)
    THEN IF ~q.dead /\ q.tail # "ok"
         THEN Gave([q EXCEPT !.dead = TRUE, !.iters[i] = Iter("done", 0)],
                   q.tail, <<>>)
         ELSE Gave([q EXCEPT !.dead = TRUE, !.gen = FALSE,
                             !.iters[i] = Iter("done", 0)],
                   "StopIteration", <<>>)
    ELSE Gave([q EXCEPT !.results = Append(@, q.seq[q.pos + 1]),
                        !.pos = @ + 1, !.iters[i] = Iter("gen", 0)],
              "ok", <<q.seq[q.pos + 1]>>)

\* One step of the loop `for item in self._results`
ReplayStep(q, i, at) ==
    IF at < Len(q.results)
    THEN Gave([q EXCEPT !.iters[i] = Iter("replay", at + 1)],
              "ok", <<q.results[at + 1]>>)
    ELSE Gave([q EXCEPT !.iters[i] = Iter("done", 0)], "StopIteration", <<>>)

\* next(it): a new iterator tests `self._gen is None` and enters one of
\* the two loops, a suspended one continues its loop.
IterNext(q, i) ==
    CASE q.iters[i].mode = "new" ->
            IF q.gen THEN GenStep(q, i) ELSE ReplayStep(q, i, 0)
      [] q.iters[i].mode = "gen" -> GenStep(q, i)
      [] q.iters[i].mode = "replay" -> ReplayStep(q, i, q.iters[i].at)
      [] OTHER -> Gave(q, "StopIteration", <<>>)

\* -------------------------------------------------------- query actions
\* The nodes of a queried document.
DocNodes == 1 .. DocSize

\* Two documents: a chain (every node the only child of the one before)
\* and a root with three children, the first of which holds the others.
DocChain ==
    Heap([n \in DocNodes |-> IF n = 1 THEN None ELSE n - 1],
         [n \in DocNodes |-> IF n = DocSize THEN <<>> ELSE <<n + 1>>])
DocBushy ==
    Heap([n \in DocNodes |-> IF n = 1 THEN None ELSE IF n <= 4 THEN 1 ELSE 2],
         [n \in DocNodes |->
            IF n = 1 THEN <<2, 3, 4>>
            ELSE IF n = 2 THEN [k \in 1 .. (DocSize - 4) |-> k + 4]
            ELSE <<>>])

\* Their nodes: spans only; elements with and without attributes next to
\* text and data; divs and spans nested in each other.
SpanFields ==
    [n \in DocNodes |-> IF n = 1 THEN NewFragment ELSE NewNode("span", <<>>)]
MixedFields ==
    [n \in DocNodes |->
        IF n = 1 THEN NewFragment
        ELSE IF n = 2 THEN NewNode("div", <<(<<"id", "a">>)>>)
        ELSE IF n = 3 THEN NewNode("span", <<(<<"id", "b">>)>>)
        ELSE IF n = 4 THEN NewTextNode("x")
        ELSE IF n = 5 THEN NewNode("span", <<>>)
        ELSE IF n = 6 THEN NewDataNode("d")
        ELSE NewNode("div", <<>>)]
NestedFields ==
    [n \in DocNodes |->
        IF n = 1 THEN NewFragment
        ELSE IF n % 2 = 0 THEN NewNode("div", <<(<<"class", "c">>)>>)
        ELSE NewNode("span", <<(<<"id", "a">>), (<<"class", "c">>)>>)]

\* The rules queried with.
Rules ==
    { <<"span">>,
      <<"/", "span">>,
      <<"*", "/", "span">>,
      <<"*">>,
      <<"#">>,
      <<"+">>,
      <<"/", "+">>,
      <<"/", "*">>,
      <<"/", "#">>,
      <<"div">>,
      <<"/", "div">>,
      <<"/", "div", "/", "span">>,
      <<"*", "[", "id", "=", "a", "]">>,
      <<"/", "span", "[", "id", "=", "a", "]">>,
      <<"/", "span", "[", "id", "!", "=", "a", "]">>,
      <<"/", "*", "[", "@", "id", "]">>,
      <<"/", "span", "[", "!", "id", "]">>,
      <<"div", "[", "bogus", "]">>,
      <<"/", "div", "/", "span", "[", "bogus", "]">>,
      <<"/", "p", "/", "span", "[", "bogus", "]">> }

\* How many nodes an abandoned iteration takes at most.
MaxTake == 2
\* The indexes a QueryResult is read at.
QueryIndexes(q) == (0 - Len(q.seq) - 1) .. Len(q.seq)

TheDoc == Heap(parent, children)

\* The state a call on a QueryResult leaves.
Access(g, op) ==
    /\ qr' = g.q
    /\ ret' = [op |-> op, exc |-> g.exc, value |-> g.value,
               node |-> None, rule |-> <<>>]
    /\ UNCHANGED <<parent, children, last, ops, fields, blob, result, listeners,
                   offered, parsing>>

\* The state a query leaves: a new QueryResult, unless the call raised;
\* the node queried (None for a QueryResult) and the rule are kept with the
\* call's outcome.
Made(r, derived, op, n, rule) ==
    /\ qr' = IF r.exc = "ok" THEN NewQueryResult(r.items, r.tail, derived) ELSE qr
    /\ ret' = [op |-> op, exc |-> r.exc, value |-> <<>>, node |-> n, rule |-> rule]
    /\ UNCHANGED <<parent, children, last, ops, fields, blob, result, listeners,
                   offered, parsing>>

\* n.query(rule)
NodeQueryCall(n, rule) ==
    Made(NodeQuery(TheDoc, fields, n, rule), FALSE, "query", n, rule)
\* qr.query(rule)
ResultQueryCall(rule) ==
    Made(ResultQuery(TheDoc, fields, qr, rule), TRUE, "result_query", None, rule)
\* list(qr)
IterateCall ==
    LET r == IterToEnd(qr) IN Access(Gave(r.q, r.exc, r.yielded), "iterate")
\* for item in qr: ... break, after k nodes
BreakCall(k) ==
    LET r == IterTake(qr, k) IN Access(Gave(r.q, r.exc, r.yielded), "break")
\* qr.first, qr.last, qr[i], len(qr)
FirstCall == Access(First(qr), "first")
LastCall == Access(Last(qr), "last")
GetItemCall(i) == Access(GetItem(qr, i), "getitem")
LenCall == Access(QueryLen(qr), "len")

\* One query on a node of the document, at most one further query on its
\* result, and any reads of the QueryResult at hand.
DoNodeQuery ==
    \E n \in DocNodes, rule \in Rules :
        /\ ~qr.made
        /\ NodeQueryCall(n, rule)

DoResultQuery ==
    \E rule \in Rules :
        /\ qr.made
        /\ ~qr.derived
        /\ ResultQueryCall(rule)

DoIterate == qr.made /\ IterateCall

DoBreak ==
    \E k \in 1 .. MaxTake :
        /\ qr.made
        /\ k <= Available(qr)
        /\ BreakCall(k)

DoFirst == qr.made /\ FirstCall

DoLast == qr.made /\ LastCall

DoGetItem == \E i \in QueryIndexes(qr) : qr.made /\ GetItemCall(i)

DoLen == qr.made /\ LenCall

\* it = iter(qr); next(it)
OpenIterCall(i) == Access(Gave(OpenIter(qr, i), "ok", <<>>), "iter")
NextIterCall(i) == Access(IterNext(qr, i), "next")

\* The rules of the queries whose results are read through iterators
\* advanced by hand: one that expands, one that raises on the way, one
\* over the children.
IterRules ==
    { <<"*">>,
      <<"/", "div", "/", "span", "[", "bogus", "]">>,
      <<"/", "span">> }

DoRootQuery == \E rule \in IterRules : ~qr.made /\ NodeQueryCall(1, rule)
DoOpenIter == \E i \in Iterators : qr.made /\ OpenIterCall(i)
DoNextIter ==
    \E i \in Iterators :
        /\ qr.made
        /\ qr.iters[i].mode \in {"new", "gen", "replay"}
        /\ NextIterCall(i)

InitQuery ==
    /\ \E h \in {DocChain, DocBushy} :
           /\ parent = h.parent
           /\ children = h.children
    /\ fields \in {SpanFields, MixedFields, NestedFields}
    /\ last = [op |-> "init", exc |-> "ok"]
    /\ ops = 0
    /\ blob = NoBlob
    /\ result = NoResult
    /\ qr = NoQuery
    /\ ret = NoReturn
    /\ listeners = <<>>
    /\ offered = <<>>
    /\ parsing = NoParsing

NextQuery ==
    \/ DoNodeQuery
    \/ DoResultQuery
    \/ DoIterate
    \/ DoBreak
    \/ DoFirst
    \/ DoLast
    \/ DoGetItem
    \/ DoLen

SpecQuery == InitQuery /\ [][NextQuery]_vars

\* One query on the root, and any interleaving of reads of its result:
\* iterators advanced by hand, abandoned or run to their end, index
\* accesses, first, last, len.
NextIterate ==
    \/ DoRootQuery
    \/ DoOpenIter
    \/ DoNextIter
    \/ DoIterate
    \/ DoBreak
    \/ DoFirst
    \/ DoLast
    \/ DoGetItem
    \/ DoLen

SpecIterate == InitQuery /\ [][NextIterate]_vars

\* =============================================================== render
\* A rendered string is the sequence of its pieces; joining strings is
\* concatenating the sequences.  A string of a node (its name, a key, a
\* value) is one piece.
\* xml.sax.saxutils.escape: '&', '<' and '>' are replaced
Escape(piece) ==
    CASE piece = "&" -> "&amp;"
      [] piece = "<" -> "&lt;"
      [] piece = ">" -> "&gt;"
      [] OTHER -> piece
\* xml.sax.saxutils.quoteattr: the escaped value between double quotes
QuoteAttr(value) == <<"\"", Escape(value), "\"">>

\* SELF_CLOSING_TAGS as it would be without 'br'.
SelfClosingTagsNoBr ==
    {"img", "area", "hr", "param", "meta", "link", "base", "input", "embed",
     "col"}

\* SELF_CLOSING_TAGS
SelfClosingTags ==
    {"br", "img", "area", "hr", "param", "meta", "link", "base", "input",
     "embed", "col"}

\* '%s' % self.name
NameText(f) == IF f.name = <<>> THEN "None" ELSE f.name[1]

\* u' '.join(u'%s=%s' % (key, quoteattr(value)) for key, value in
\*           self.attributes.iteritems())
RECURSIVE JoinAttributes(_)
JoinAttributes(a) ==
    IF a = <<>> THEN <<>>
    ELSE <<a[1][1], "=">> \o QuoteAttr(a[1][2])
         \o (IF Len(a) = 1 THEN <<>> ELSE <<" ">> \o JoinAttributes(Tail(a)))

\* The event a render callback sends to 'process-node-callback'.
Event(identifier, data, node, text_only) ==
    [identifier |-> identifier, data |-> data, node |-> node,
     text_only |-> text_only]

\* What rendering gives: the string, and the events sent on the way.
Rendered(out, events) == [out |-> out, events |-> events]

RECURSIVE Render(_, _, _, _, _)
RECURSIVE RenderCallback(_, _, _, _, _, _)
RECURSIVE RenderChildren(_, _, _, _)

\* A listener is one of three plugins, each for one identifier: one that
\* always answers None, one that answers a fixed string, one that answers
\* as the clock plugin of the module docstring does (its string when
\* text_only, else node.render(inject=its string)).  An answer is <<>> for
\* None and <<string>> otherwise.
ListenerAnswer(h, f, L, l, ev) ==
    IF l.identifier # ev.identifier \/ l.kind = "null" THEN <<>>
    ELSE IF l.kind = "value" \/ ev.text_only THEN <<(<<l.text>>)>>
    ELSE <<Render(h, f, L, ev.node, <<(<<l.text>>)>>).out>>

\* emit_event('process-node-callback', identifier, data, node, text_only)
\* is not part of the sources at hand: the listeners answer in the order
\* they were connected.
EmitEvent(h, f, L, ev) == [k \in 1 .. Len(L) |-> ListenerAnswer(h, f, L, L[k], ev)]

\* The first item that is not None, <<>> when there is none.
FirstAnswer(items) ==
    IF \A k \in 1 .. Len(items) : items[k] = <<>> THEN <<>>
    ELSE items[CHOOSE k \in 1 .. Len(items) :
                  items[k] # <<>> /\ \A m \in 1 .. (k - 1) : items[m] = <<>>]

\* Node._render_callback(text_only), from pair number k of callback_data
\* on: the answer (<<>> for None) and the events sent.
RenderCallback(h, f, L, n, text_only, k) ==
    LET pairs == IF f[n].callback_data = <<>> THEN <<>> ELSE f[n].callback_data[1]
        ev == Event(pairs[k][1], pairs[k][2], n, text_only)
        item == FirstAnswer(EmitEvent(h, f, L, ev))
        more == RenderCallback(h, f, L, n, text_only, k + 1)
    IN IF k > Len(pairs) THEN [rv |-> <<>>, events |-> <<>>]
       ELSE IF item # <<>> THEN [rv |-> item, events |-> <<ev>>]
       ELSE [rv |-> more.rv, events |-> <<ev>> \o more.events]

\* child.render() for every child, joined
RenderChildren(h, f, L, kids) ==
    IF kids = <<>> THEN Rendered(<<>>, <<>>)
    ELSE LET one == Render(h, f, L, Head(kids), <<>>)
             more == RenderChildren(h, f, L, Tail(kids))
         IN Rendered(one.out \o more.out, one.events \o more.events)

\* Node.render as it would be if the callbacks were consulted whether or
\* not a string is injected.
NodeRenderCallbackAlways(h, f, L, n, inject) ==
    LET cb == RenderCallback(h, f, L, n, FALSE, 1)
        attributes == JoinAttributes(f[n].attributes)
        open == <<"<", NameText(f[n])>>
                \o (IF attributes # <<>> THEN <<" ">> \o attributes ELSE <<>>)
                \o <<">">>
        kids == RenderChildren(h, f, L, h.children[n])
        close == <<"</", NameText(f[n]), ">">>
    IN IF cb.rv # <<>> THEN Rendered(cb.rv[1], cb.events)
       ELSE IF NameText(f[n]) \in SelfClosingTags THEN Rendered(open, cb.events)
       ELSE IF inject # <<>> THEN Rendered(open \o inject[1] \o close, cb.events)
       ELSE Rendered(open \o kids.out \o close, cb.events \o kids.events)

\* Node.render(inject) for an element: inject is <<>> for None
NodeRender(h, f, L, n, inject) ==
    LET cb == IF inject = <<>> THEN RenderCallback(h, f, L, n, FALSE, 1)
              ELSE [rv |-> <<>>, events |-> <<>>]
        attributes == JoinAttributes(f[n].attributes)
        open == <<"<", NameText(f[n])>>
                \o (IF attributes # <<>> THEN <<" ">> \o attributes ELSE <<>>)
                \o <<">">>
        kids == RenderChildren(h, f, L, h.children[n])
        close == <<"</", NameText(f[n]), ">">>
    IN IF cb.rv # <<>> THEN Rendered(cb.rv[1], cb.events)
       ELSE IF NameText(f[n]) \in SelfClosingTags THEN Rendered(open, cb.events)
       ELSE IF inject # <<>> THEN Rendered(open \o inject[1] \o close, cb.events)
       ELSE Rendered(open \o kids.out \o close, cb.events \o kids.events)

\* node.render(inject): TextNode.render, DataNode.render and
\* Fragment.render replace Node.render
Render(h, f, L, n, inject) ==
    CASE f[n].cls = "TextNode" -> Rendered(<<Escape(f[n].value[1])>>, <<>>)
      [] f[n].cls = "DataNode" -> Rendered(<<f[n].value[1]>>, <<>>)
      [] f[n].cls = "Fragment" -> RenderChildren(h, f, L, h.children[n])
      [] OTHER -> NodeRender(h, f, L, n, inject)

\* ---------------------------------------------------- text extraction
RECURSIVE Text(_, _, _, _)
RECURSIVE TextChildren(_, _, _, _)

\* u''.join(x.text for x in self)
TextChildren(h, f, L, kids) ==
    IF kids = <<>> THEN Rendered(<<>>, <<>>)
    ELSE LET one == Text(h, f, L, Head(kids))
             more == TextChildren(h, f, L, Tail(kids))
         IN Rendered(one.out \o more.out, one.events \o more.events)

\* Node.text as it would be without the two newlines after a paragraph.
NodeTextNoParagraph(h, f, L, n) ==
    LET cb == RenderCallback(h, f, L, n, TRUE, 1)
        kids == TextChildren(h, f, L, h.children[n])
    IN IF cb.rv # <<>> THEN Rendered(cb.rv[1], cb.events)
       ELSE IF f[n].name = <<"br">> THEN Rendered(<<"\n">>, cb.events)
       ELSE Rendered(kids.out, cb.events \o kids.events)

\* Node.text
NodeText(h, f, L, n) ==
    LET cb == RenderCallback(h, f, L, n, TRUE, 1)
        kids == TextChildren(h, f, L, h.children[n])
    IN IF cb.rv # <<>> THEN Rendered(cb.rv[1], cb.events)
       ELSE IF f[n].name = <<"br">> THEN Rendered(<<"\n">>, cb.events)
       ELSE IF f[n].name = <<"p">>
       THEN Rendered(kids.out \o <<"\n\n">>, cb.events \o kids.events)
       ELSE Rendered(kids.out, cb.events \o kids.events)

\* node.text: TextNode.text and DataNode.text replace Node.text, Fragment
\* inherits it; u'' joins as nothing
Text(h, f, L, n) ==
    CASE f[n].cls = "TextNode" -> Rendered(<<f[n].value[1]>>, <<>>)
      [] f[n].cls = "DataNode" -> Rendered(<<>>, <<>>)
      [] OTHER -> NodeText(h, f, L, n)

\* ------------------------------------------------- rendering a document
\* The documents rendered: DocBushy with every kind of node, and with
\* elements only (a self-closing one among them, one with an attribute
\* value to escape).
VariantFields ==
    [n \in DocNodes |->
        IF n = 1 THEN NewFragment
        ELSE IF n = 2 THEN NewNode("p", <<(<<"id", "a">>)>>)
        ELSE IF n = 3 THEN NewTextNode("&")
        ELSE IF n = 4 THEN NewDataNode("<")
        ELSE IF n = 5 THEN NewNode("br", <<>>)
        ELSE NewTextNode("x")]
ElementFields ==
    [n \in DocNodes |->
        IF n = 1 THEN NewNode("div", <<>>)
        ELSE IF n = 2 THEN NewNode("br", <<(<<"class", "c">>)>>)
        ELSE IF n = 3 THEN NewNode("img", <<(<<"src", "<">>), (<<"alt", "x">>)>>)
        ELSE IF n = 4 THEN NewNode("hr", <<>>)
        ELSE NewTextNode("y")]

\* The plugins connected to 'process-node-callback', in connection order.
Listener(identifier, kind, text) ==
    [identifier |-> identifier, kind |-> kind, text |-> text]
ListenerSets ==
    { <<>>,
      <<Listener("cb", "null", ""), Listener("cb", "value", "X")>>,
      <<Listener("toc", "value", "T")>>,
      <<Listener("cb", "inject", "T"), Listener("toc", "value", "Y")>>,
      <<Listener("cb", "value", "X"), Listener("cb", "value", "Y")>> }

\* The identifiers plugins attach, and the strings they inject.
Identifiers == {"cb", "toc"}
Injected == {<<>>, <<"T">>}

\* node.add_render_callback(identifier), in the 'process-doc-tree' phase
\* (before anything is rendered)
AddRenderCallbackCall(n, identifier) ==
    /\ fields' = [fields EXCEPT ![n] = AddRenderCallback(@, identifier, <<>>)]
    /\ ops' = ops + 1
    /\ UNCHANGED <<parent, children, last, blob, result, engineVars>>

\* node.render(inject): inject is <<>> for None, <<string>> otherwise; the
\* string returned and the events sent are kept, with the node and the
\* argument.
RenderCall(n, inject) ==
    LET r == Render(TheDoc, fields, listeners, n, inject)
    IN /\ ret' = [op |-> "render", exc |-> "ok", value |-> r.out,
                  node |-> n, rule |-> inject]
       /\ offered' = r.events
       /\ UNCHANGED <<parent, children, last, ops, fields, blob, result, qr,
                      listeners, parsing>>

\* node.text: the string returned and the events sent are kept, with the
\* node.
TextCall(n) ==
    LET r == Text(TheDoc, fields, listeners, n)
    IN /\ ret' = [op |-> "text", exc |-> "ok", value |-> r.out,
                  node |-> n, rule |-> <<>>]
       /\ offered' = r.events
       /\ UNCHANGED <<parent, children, last, ops, fields, blob, result, qr,
                      listeners, parsing>>

DoAddRenderCallback ==
    /\ ops < MaxOps
    /\ ret.op = "none"
    /\ \E n \in DocNodes, identifier \in Identifiers :
           AddRenderCallbackCall(n, identifier)
DoRender == \E n \in DocNodes : RenderCall(n, <<>>)
DoRenderInject ==
    \E n \in DocNodes, inject \in Injected : RenderCall(n, <<inject>>)
DoText == \E n \in DocNodes : TextCall(n)

InitRender ==
    /\ parent = DocBushy.parent
    /\ children = DocBushy.children
    /\ fields \in {VariantFields, ElementFields}
    /\ listeners \in ListenerSets
    /\ last = [op |-> "init", exc |-> "ok"]
    /\ ops = 0
    /\ blob = NoBlob
    /\ result = NoResult
    /\ qr = NoQuery
    /\ ret = NoReturn
    /\ offered = <<>>
    /\ parsing = NoParsing

NextRender ==
    \/ DoAddRenderCallback
    \/ DoRender
    \/ DoRenderInject
    \/ DoText

SpecRender == InitRender /\ [][NextRender]_vars

\* ================================================================ parse
\* What BeautifulSoup hands back: a tag with a name, attributes and
\* contents, each content being a string or a tag.
SoupText(text) ==
    [kind |-> "text", name |-> "", attrs |-> <<>>, text |-> text,
     contents |-> <<>>]
SoupTag(name, attrs, contents) ==
    [kind |-> "tag", name |-> name, attrs |-> attrs, text |-> "",
     contents |-> contents]

\* The markup parsed, and the soup self._parser(input_data, ...) makes of
\* it (BeautifulSoup is not part of the sources at hand): a bare string, a
\* single root element, an element with an attribute next to a string.
Inputs == {"a", "<p>a</p>", "<div id=x><br>b</div>c"}
Soup(input) ==
    CASE input = "a" -> SoupTag("[document]", <<>>, <<SoupText("a")>>)
      [] input = "<p>a</p>" ->
            SoupTag("[document]", <<>>,
                    <<SoupTag("p", <<>>, <<SoupText("a")>>)>>)
      [] OTHER ->
            SoupTag("[document]", <<>>,
                    <<SoupTag("div", <<(<<"id", "x">>)>>,
                              <<SoupTag("br", <<>>, <<>>), SoupText("b")>>),
                      SoupText("c")>>)
Reasons == {"post", "page"}

\* A node of a tree parse hands back, with its children.
TreeNode(f, kids) ==
    [cls |-> f.cls, name |-> f.name, attributes |-> f.attributes,
     value |-> f.value, callback_data |-> f.callback_data, children |-> kids]

\* convert_tree(node, root)
RECURSIVE ConvertTree(_, _)
RECURSIVE ConvertContents(_)
ConvertContents(contents) ==
    IF contents = <<>> THEN <<>>
    ELSE <<(IF Head(contents).kind = "text"
            THEN TreeNode(NewTextNode(Head(contents).text), <<>>)
            ELSE ConvertTree(Head(contents), FALSE))>>
         \o ConvertContents(Tail(contents))
\* convert_tree as it would be if the outermost tag became an element too.
ConvertTreeNoFragment(node, root) ==
    TreeNode(NewNode(node.name, node.attrs), ConvertContents(node.contents))
ConvertTree(node, root) ==
    TreeNode(IF root THEN NewFragment ELSE NewNode(node.name, node.attrs),
             ConvertContents(node.contents))

\* A listener of 'setup-markup-parser' appends a tag to one of the
\* parser's lists.
RECURSIVE SetupAll(_, _)
SetupAll(parser, L) ==
    IF L = <<>> THEN parser
    ELSE SetupAll([parser EXCEPT ![Head(L).list] = Append(@, Head(L).tag)],
                  Tail(L))
\* MarkupParser.__init__: the lists, then the event
MarkupParser(L) ==
    SetupAll([isolated_tags |-> <<"script", "style", "pre">>,
              self_closing_tags |->
                  <<"br", "img", "area", "hr", "param", "meta", "link",
                    "base", "input", "embed", "col">>,
              nestable_block_tags |->
                  <<"blockquote", "div", "fieldset", "ins", "del">>,
              non_nestable_block_tags |-> <<"address", "form", "p">>,
              nestable_inline_tags |->
                  <<"span", "font", "q", "object", "bdo", "sub", "sup",
                    "center">>],
             L)

\* A listener of 'switch-markup-parser' answers with its parser for the
\* reason it cares about ("any": for every reason), with None otherwise;
\* <<>> is None.
SwitchAnswer(l, input, reason) ==
    IF l.reason = "any" \/ l.reason = reason THEN <<l.parser>> ELSE <<>>
\* emit_event('switch-markup-parser', input_data, reason): the answers of
\* the listeners in connection order (emit_event is not part of the
\* sources at hand)
EmitSwitch(L, input, reason) ==
    [k \in 1 .. Len(L) |-> SwitchAnswer(L[k], input, reason)]
\* parser.parse(input_data, reason) of a parser a listener supplied: a
\* Fragment naming the parser and what it was given.
AlternateParse(parser, input, reason) ==
    TreeNode(NewFragment,
             <<TreeNode(NewDataNode(parser), <<>>),
               TreeNode(NewTextNode(input), <<>>),
               TreeNode(NewTextNode(reason), <<>>)>>)

\* emit_event('process-doc-tree', tree, input_data, reason), up to the
\* first item that is not None: a listener leaves the tree alone ("none"),
\* attaches a render callback to it and answers None ("mark"), or answers
\* with a tree of its own ("replace").  Gives the tree as the listeners
\* left it and the item returned (<<>>: none).
RECURSIVE ProcessDocTree(_, _)
ProcessDocTree(L, tree) ==
    IF L = <<>> THEN [tree |-> tree, item |-> <<>>]
    ELSE CASE Head(L).kind = "replace" ->
                [tree |-> tree,
                 item |-> <<TreeNode(NewFragment,
                                     <<TreeNode(NewTextNode(Head(L).text),
                                                <<>>)>>)>>]
           [] Head(L).kind = "mark" ->
                ProcessDocTree(Tail(L),
                               AddRenderCallback(tree, Head(L).text, <<>>))
           [] OTHER -> ProcessDocTree(Tail(L), tree)

\* MarkupParser.parse(input_data, reason): the tree convert_tree built, as
\* the listeners left it, and what the call returns.
MarkupParserParse(P, input, reason) ==
    LET tree == ConvertTree(Soup(input), TRUE)
        done == ProcessDocTree(P.doctree, tree)
    IN [tree |-> done.tree,
        rv |-> IF done.item # <<>> THEN done.item[1] ELSE done.tree]

\* The call parse(input_data, reason) made in context app.
Call(app, input, reason, steps, tree) ==
    [app |-> app, input |-> input, reason |-> reason, steps |-> steps,
     tree |-> tree]

\* parse(input_data, reason) as it would be without the cache.
ParseUncached(P, app, input, reason) ==
    LET answers == EmitSwitch(P.switch, input, reason)
        parser == FirstAnswer(answers)
        built == MarkupParserParse(P, input, reason)
    IN IF parser # <<>>
       THEN [P |-> [P EXCEPT !.call =
                        Call(app, input, reason,
                             <<"switch-markup-parser", "parser.parse">>, <<>>)],
             rv |-> AlternateParse(parser[1], input, reason)]
       ELSE [P |-> [P EXCEPT
                        !.cache[app] = <<MarkupParser(P.setup)>>,
                        !.constructed[app] = @ + 1,
                        !.emitted[app] = @ + 1,
                        !.call =
                            Call(app, input, reason,
                                 <<"switch-markup-parser", "get_application",
                                   "MarkupParser", "setup-markup-parser",
                                   "MarkupParser.parse", "process-doc-tree">>,
                                 <<built.tree>>)],
             rv |-> built.rv]

\* parse(input_data, reason) as it would be if the default parser were
\* used whatever the listeners of 'switch-markup-parser' answer.
ParseDefaultAlways(P, app, input, reason) ==
    LET built == MarkupParserParse(P, input, reason)
    IN IF P.cache[app] = <<>>
       THEN [P |-> [P EXCEPT
                        !.cache[app] = <<MarkupParser(P.setup)>>,
                        !.constructed[app] = @ + 1,
                        !.emitted[app] = @ + 1,
                        !.call =
                            Call(app, input, reason,
                                 <<"switch-markup-parser", "get_application",
                                   "MarkupParser", "setup-markup-parser",
                                   "MarkupParser.parse", "process-doc-tree">>,
                                 <<built.tree>>)],
             rv |-> built.rv]
       ELSE [P |-> [P EXCEPT !.call =
                        Call(app, input, reason,
                             <<"switch-markup-parser", "get_application",
                               "_parser_cache", "MarkupParser.parse",
                               "process-doc-tree">>,
                             <<built.tree>>)],
             rv |-> built.rv]

\* parse(input_data, reason) in context app (what get_application() gives,
\* a function of textpress.application): the hooks and the cache
\* afterwards, and the value returned.
Parse(P, app, input, reason) ==
    LET answers == EmitSwitch(P.switch, input, reason)
        parser == FirstAnswer(answers)
        built == MarkupParserParse(P, input, reason)
    IN IF parser # <<>>
       THEN [P |-> [P EXCEPT !.call =
                        Call(app, input, reason,
                             <<"switch-markup-parser", "parser.parse">>, <<>>)],
             rv |-> AlternateParse(parser[1], input, reason)]
       ELSE IF P.cache[app] = <<>>
       THEN [P |-> [P EXCEPT
                        !.cache[app] = <<MarkupParser(P.setup)>>,
                        !.constructed[app] = @ + 1,
                        !.emitted[app] = @ + 1,
                        !.call =
                            Call(app, input, reason,
                                 <<"switch-markup-parser", "get_application",
                                   "MarkupParser", "setup-markup-parser",
                                   "MarkupParser.parse", "process-doc-tree">>,
                                 <<built.tree>>)],
             rv |-> built.rv]
       ELSE [P |-> [P EXCEPT !.call =
                        Call(app, input, reason,
                             <<"switch-markup-parser", "get_application",
                               "_parser_cache", "MarkupParser.parse",
                               "process-doc-tree">>,
                             <<built.tree>>)],
             rv |-> built.rv]

\* ------------------------------------------------------- parse actions
\* The listeners connected to the three parser hooks.
SwitchListener(reason, parser) == [reason |-> reason, parser |-> parser]
SwitchSets ==
    { <<>>,
      <<SwitchListener("page", "A")>>,
      <<SwitchListener("never", "A"), SwitchListener("page", "B")>>,
      <<SwitchListener("page", "A"), SwitchListener("any", "B")>> }
SetupListener(list, tag) == [list |-> list, tag |-> tag]
SetupSets ==
    { <<>>,
      <<SetupListener("isolated_tags", "code"),
        SetupListener("nestable_inline_tags", "em")>> }
TreeListener(kind, text) == [kind |-> kind, text |-> text]
TreeSets ==
    { <<>>,
      <<TreeListener("mark", "toc")>>,
      <<TreeListener("none", ""), TreeListener("replace", "R"),
        TreeListener("replace", "S")>>,
      <<TreeListener("mark", "toc"), TreeListener("replace", "R"),
        TreeListener("mark", "cb")>> }

ParseCall(app, input, reason) ==
    LET r == Parse(parsing, app, input, reason)
    IN /\ parsing' = r.P
       /\ ret' = [op |-> "parse", exc |-> "ok", value |-> <<r.rv>>,
                  node |-> None, rule |-> <<>>]
       /\ UNCHANGED <<parent, children, last, ops, fields, blob, result, qr,
                      listeners, offered>>

DoParse ==
    \E app \in Apps, input \in Inputs, reason \in Reasons :
        ParseCall(app, input, reason)

InitParse ==
    /\ parent = FlatHeap.parent
    /\ children = FlatHeap.children
    /\ fields = SampleFields
    /\ last = [op |-> "init", exc |-> "ok"]
    /\ ops = 0
    /\ blob = NoBlob
    /\ result = NoResult
    /\ qr = NoQuery
    /\ ret = NoReturn
    /\ listeners = <<>>
    /\ offered = <<>>
    /\ \E sw \in SwitchSets, su \in SetupSets, dt \in TreeSets :
           parsing = [NoParsing EXCEPT !.switch = sw, !.setup = su,
                                       !.doctree = dt]

NextParse == DoParse

SpecParse == InitParse /\ [][NextParse]_vars

\* ================================================== claims: child lists
Elems(c) == {c[k] : k \in 1 .. Len(c)}
Occurrences(c, x) == Cardinality({k \in 1 .. Len(c) : c[k] = x})

\* The slice c[a:b] as the language defines it for a list: positions
\* SliceLo(c, a) + 1 .. SliceHi(c, a, b).
SliceLo(c, a) == ClampLo(Len(c), IF a < 0 THEN a + Len(c) ELSE a)
SliceHi(c, a, b) ==
    ClampHi(Len(c), SliceLo(c, a), IF b < 0 THEN b + Len(c) ELSE b)

\* C1: for every node n and every node c, c occurs in n.children if and
\* only if c.parent is n, and at most once, after any sequence of public
\* child-list calls, failed ones included.
C1_Ownership ==
    \A n \in Nodes, c \in Nodes :
        /\ (c \in Elems(children[n])) <=> (parent[c] = n)
        /\ Occurrences(children[n], c) <= 1

\* Following parent pointers from n for at most k steps reaches m.
RECURSIVE ReachesUp(_, _, _)
ReachesUp(n, m, k) ==
    /\ k > 0
    /\ parent[n] # None
    /\ (parent[n] = m \/ ReachesUp(parent[n], m, k - 1))

Acyclic == \A n \in Nodes : ~ReachesUp(n, n, NumNodes)

\* C2: no append, insert, indexed assignment, replace or extend makes a
\* node its own ancestor: from a heap without a parent cycle each of these
\* calls leaves a heap without one.
C2_Acyclicity ==
    [][(/\ last'.op \in {"append", "insert", "setitem", "replace", "extend"}
        /\ Acyclic) => Acyclic']_vars

\* C3: append(x) and insert(i, x) on the list of n raise TypeError and
\* change nothing when x.parent is not None; otherwise they return, set
\* x.parent to n and put x at the end (append) or at position i (insert,
\* 0 <= i <= len; list.insert's own clamp otherwise).
C3_AppendPost(n, x) ==
    IF parent[x] # None
    THEN last'.exc = "TypeError" /\ UNCHANGED <<parent, children>>
    ELSE /\ last'.exc = "ok"
         /\ parent' = [parent EXCEPT ![x] = n]
         /\ children' = [children EXCEPT ![n] = Append(children[n], x)]

C3_InsertPost(n, i, x) ==
    IF parent[x] # None
    THEN last'.exc = "TypeError" /\ UNCHANGED <<parent, children>>
    ELSE /\ last'.exc = "ok"
         /\ parent' = [parent EXCEPT ![x] = n]
         /\ Len(children'[n]) = Len(children[n]) + 1
         /\ \A m \in Nodes \ {n} : children'[m] = children[m]
         /\ (i >= 0 /\ i <= Len(children[n])) =>
                /\ children'[n][i + 1] = x
                /\ \A k \in 1 .. i : children'[n][k] = children[n][k]
                /\ \A k \in (i + 1) .. Len(children[n]) :
                       children'[n][k + 1] = children[n][k]

C4_SetSlicePost(n, a, b, s) ==
    LET c   == children[n]
        out == Elems(SubSeq(c, SliceLo(c, a) + 1, SliceHi(c, a, b)))
    IN  IF \E k \in 1 .. Len(s) : parent[s[k]] # None
        THEN last'.exc = "TypeError"
        ELSE /\ last'.exc = "ok"
             /\ \A x \in out \ Elems(s) :
                    parent'[x] = None /\ x \notin Elems(children'[n])
             /\ \A x \in Elems(s) :
                    parent'[x] = n /\ x \in Elems(children'[n])

C4_SliceAssignment ==
    [][\A n \in Nodes :
          \A a \in Indexes(children[n]), b \in Indexes(children[n]) :
              \A s \in SeqArgs(SliceArgLen(children[n], a, b)) :
                  SetSliceCall(n, a, b, s) => C4_SetSlicePost(n, a, b, s)]_vars

\* C5: n.children[i] = x with i a valid index raises TypeError and changes
\* nothing when x.parent is not None; otherwise the node that was at i gets
\* parent None, x gets parent n and sits at i, and the length is unchanged.
C5_SetItemPost(n, i, x) ==
    LET c == children[n]
        k == PyIndex(Len(c), i) + 1
    IN  IF parent[x] # None
        THEN last'.exc = "TypeError" /\ UNCHANGED <<parent, children>>
        ELSE /\ last'.exc = "ok"
             /\ parent'[c[k]] = None
             /\ parent'[x] = n
             /\ children'[n][k] = x
             /\ Len(children'[n]) = Len(c)

C5_IndexedAssignment ==
    [][\A n \in Nodes, x \in Nodes :
          \A i \in Indexes(children[n]) :
              (/\ PyIndex(Len(children[n]), i) \in 0 .. (Len(children[n]) - 1)
               /\ SetItemCall(n, i, x)) => C5_SetItemPost(n, i, x)]_vars

\* C6: pop, del children[i] and del children[a:b] give every removed node
\* parent None (so that it can be appended anywhere again), remove exactly
\* the nodes at the positions named, and leave the parent of every
\* remaining child as it was.
C6_RemovedPost(n, lo, hi) ==
    LET c == children[n]
    IN  /\ children'[n] = SubSeq(c, 1, lo) \o SubSeq(c, hi + 1, Len(c))
        /\ \A k \in (lo + 1) .. hi : parent'[c[k]] = None
        /\ \A x \in Elems(children'[n]) : parent'[x] = parent[x]

C6_Removal ==
    [][/\ \A n \in Nodes :
              (PopCall(n) /\ last'.exc = "ok") =>
                  C6_RemovedPost(n, Len(children[n]) - 1, Len(children[n]))
       /\ \A n \in Nodes : \A i \in Indexes(children[n]) :
              ((PopIndexCall(n, i) \/ DelItemCall(n, i)) /\ last'.exc = "ok") =>
                  C6_RemovedPost(n, PyIndex(Len(children[n]), i),
                                 PyIndex(Len(children[n]), i) + 1)
       /\ \A n \in Nodes :
              \A a \in Indexes(children[n]), b \in Indexes(children[n]) :
                  DelSliceCall(n, a, b) =>
                      /\ last'.exc = "ok"
                      /\ C6_RemovedPost(n, SliceLo(children[n], a),
                                        SliceHi(children[n], a, b))]_vars

\* C7: n.children.replace(old, x) puts x where old first occurs (old.parent
\* becomes None, x.parent becomes n) when x has no parent; when old is not
\* among the children it raises ValueError('node not in list') and changes
\* nothing.
C7_ReplacePost(n, old, x) ==
    LET c == children[n]
        k == FirstIndexOf(c, old)
    IN  IF old \notin Elems(c)
        THEN last'.exc = NotInList /\ UNCHANGED <<parent, children>>
        ELSE parent[x] = None =>
                 /\ last'.exc = "ok"
                 /\ children'[n] = [c EXCEPT ![k] = x]
                 /\ parent'[old] = None
                 /\ parent'[x] = n

C7_Replace ==
    [][\A n \in Nodes, old \in Nodes, x \in Nodes :
          ReplaceCall(n, old, x) => C7_ReplacePost(n, old, x)]_vars

\* C27: n.children.remove(x) with x among the children takes exactly that
\* node out of the list and sets its parent to None, the other children
\* staying as they are; with x not among them it raises ValueError('node
\* not in list') and changes nothing.
C27_RemovePost(n, x) ==
    LET c == children[n]
        k == FirstIndexOf(c, x)
    IN  IF x \notin Elems(c)
        THEN last'.exc = NotInList /\ UNCHANGED <<parent, children>>
        ELSE /\ last'.exc = "ok"
             /\ children' = [children EXCEPT ![n] = ListRemoveAt(c, k - 1)]
             /\ parent'[x] = None

C27_Remove ==
    [][\A n \in Nodes, x \in Nodes :
          RemoveCall(n, x) => C27_RemovePost(n, x)]_vars

\* ======================================================= claims: codec
\* The node at path of the loaded tree t equals node n of the heap: same
\* class, same name, attributes, value and callback_data, and children that
\* are equal position by position.
RECURSIVE StructEq(_, _, _)
StructEq(n, t, path) ==
    /\ path \in DOMAIN t
    /\ t[path].cls = fields[n].cls
    /\ t[path].name = PyOptStr(fields[n].name)
    /\ t[path].attributes = PyAttributes(fields[n].attributes)
    /\ t[path].value = PyOptStr(fields[n].value)
    /\ t[path].callback_data = PyCallbackData(fields[n].callback_data)
    /\ Len(t[path].children) = Len(children[n])
    /\ \A k \in 1 .. Len(children[n]) :
           StructEq(children[n][k], t, t[path].children[k])

\* result is what load_tree returned for the untouched dump of a tree.
LoadedDump ==
    /\ result.op = "load_tree"
    /\ blob.tree # None
    /\ ~blob.corrupt

\* C8: load_tree(dump_tree(t)) is structurally equal to t for every tree t,
\* the trees whose root is an element or text node without children,
\* attributes, callbacks and value included.
C8_RoundTrip ==
    LoadedDump =>
        /\ result.exc = "ok"
        /\ result.kind = "tree"
        /\ StructEq(blob.tree, result.tree, <<>>)

\* The loaded tree t satisfies the ownership invariant: the root has no
\* parent, every node is the owner of its child list, every child's parent
\* is the node whose list holds it, and no node is held twice.
LoadedOwnership(t) ==
    /\ <<>> \in DOMAIN t
    /\ t[<<>>].parent = NoneRef
    /\ \A p \in DOMAIN t :
           /\ t[p].node = p
           /\ \A k \in 1 .. Len(t[p].children) :
                  /\ t[p].children[k] \in DOMAIN t
                  /\ t[t[p].children[k]].parent = NodeRef(p)
                  /\ \A m \in 1 .. Len(t[p].children) :
                         t[p].children[m] = t[p].children[k] => m = k
    /\ \A c \in DOMAIN t :
           c # <<>> =>
               \E p \in DOMAIN t : \E k \in 1 .. Len(t[p].children) :
                   t[p].children[k] = c

\* C9: every tree load_tree returns has a parentless root, children whose
\* parent is the node holding them, and child lists owned by their holder.
C9_LoadedOwnership ==
    (result.op = "load_tree" /\ result.kind = "tree")
        => LoadedOwnership(result.tree)

\* load_tree has returned a tree three levels deep.
C9_Witness ==
    /\ result.op = "load_tree"
    /\ result.kind = "tree"
    /\ <<1, 1>> \in DOMAIN result.tree

\* C10: loading damaged bytes never raises to the caller, and bytes that do
\* not decode are answered with an empty Fragment.
C10_CorruptLoad ==
    (blob.corrupt /\ result.op \in {"load_tree", "process_result_value"}) =>
        /\ result.exc = "ok"
        /\ LoadTree(blob.data).exc # "ok" =>
               (result.kind = "tree" /\ result.tree = EmptyFragment)

\* ======================================================= claims: query
\* The nodes below n, and the element nodes named name.
Below(n) == {d \in DocNodes : ReachesUp(d, n, DocSize)}
Named(name) ==
    {d \in DocNodes : fields[d].cls = "Node" /\ fields[d].name = <<name>>}
IsSpan(d) == d \in Named("span")

\* n.query(rule) has just returned the QueryResult qr.
Queried(rule) == ret.op = "query" /\ ret.rule = rule
QueriedOk(rule) == Queried(rule) /\ ret.exc = "ok" /\ qr.tail = "ok"

\* C11: n.query('span') yields every span below n, at whatever depth, each
\* once.
C11_AllDescendants ==
    Queried(<<"span">>) =>
        /\ ret.exc = "ok"
        /\ qr.tail = "ok"
        /\ Elems(qr.seq) = Below(ret.node) \cap Named("span")
        /\ \A d \in DocNodes : Occurrences(qr.seq, d) <= 1

\* C12: n.query('*/span') yields every span below n that is not a child of
\* n, and no child of n.
C12_NonTopLevel ==
    Queried(<<"*", "/", "span">>) =>
        /\ ret.exc = "ok"
        /\ qr.tail = "ok"
        /\ Elems(qr.seq) =
              (Below(ret.node) \cap Named("span")) \ Elems(children[ret.node])

\* C13: n.query('/span') yields exactly the children of n named span, in
\* the order of the child list, and nothing from further below.
C13_DirectChildren ==
    Queried(<<"/", "span">>) =>
        /\ ret.exc = "ok"
        /\ qr.tail = "ok"
        /\ qr.seq = SelectSeq(children[ret.node], IsSpan)

\* '/span' was queried on a node with a span child, a child that is no
\* span, and a span further below.
C13_Witness ==
    /\ QueriedOk(<<"/", "span">>)
    /\ qr.seq # <<>>
    /\ Elems(children[ret.node]) \ Named("span") # {}
    /\ (Below(ret.node) \cap Named("span")) \ Elems(children[ret.node]) # {}

\* Node d has the attribute key; it has it with the value value.
HasAttr(d, key) ==
    \E k \in 1 .. Len(fields[d].attributes) : fields[d].attributes[k][1] = key
AttrIs(d, key, value) ==
    \E k \in 1 .. Len(fields[d].attributes) :
        fields[d].attributes[k] = <<key, value>>

\* The children of the queried node that satisfy Keep, in list order.
KeptChildren(Keep(_)) == SelectSeq(children[ret.node], Keep)

\* C14: a segment with a bracket predicate keeps the candidates that pass
\* the name filter and the predicate: [id=a] the attribute equals a,
\* [id!=a] it is absent or differs from a, [!id] it is absent, [@id] it is
\* present.
C14_Predicates ==
    LET SpanIdIsA(d) == IsSpan(d) /\ AttrIs(d, "id", "a")
        SpanIdIsNotA(d) == IsSpan(d) /\ ~AttrIs(d, "id", "a")
        SpanWithoutId(d) == IsSpan(d) /\ ~HasAttr(d, "id")
        WithId(d) == HasAttr(d, "id")
    IN /\ Queried(<<"/", "span", "[", "id", "=", "a", "]">>) =>
             (ret.exc = "ok" /\ qr.tail = "ok" /\ qr.seq = KeptChildren(SpanIdIsA))
       /\ Queried(<<"/", "span", "[", "id", "!", "=", "a", "]">>) =>
             (ret.exc = "ok" /\ qr.tail = "ok" /\ qr.seq = KeptChildren(SpanIdIsNotA))
       /\ Queried(<<"/", "span", "[", "!", "id", "]">>) =>
             (ret.exc = "ok" /\ qr.tail = "ok" /\ qr.seq = KeptChildren(SpanWithoutId))
       /\ Queried(<<"/", "*", "[", "@", "id", "]">>) =>
             (ret.exc = "ok" /\ qr.tail = "ok" /\ qr.seq = KeptChildren(WithId))

\* C15: '*' keeps every candidate, '#' those with a value, '+' those
\* without one, a literal the elements of that name; the candidates are the
\* children of the queried node.
C15_Segments ==
    LET Every(d) == TRUE
        WithValue(d) == fields[d].value # <<>>
        WithoutValue(d) == fields[d].value = <<>>
        IsDiv(d) == d \in Named("div")
    IN /\ Queried(<<"/", "*">>) =>
             (ret.exc = "ok" /\ qr.tail = "ok" /\ qr.seq = KeptChildren(Every))
       /\ Queried(<<"/", "#">>) =>
             (ret.exc = "ok" /\ qr.tail = "ok" /\ qr.seq = KeptChildren(WithValue))
       /\ Queried(<<"/", "+">>) =>
             (ret.exc = "ok" /\ qr.tail = "ok" /\ qr.seq = KeptChildren(WithoutValue))
       /\ Queried(<<"/", "span">>) =>
             (ret.exc = "ok" /\ qr.tail = "ok" /\ qr.seq = KeptChildren(IsSpan))
       /\ Queried(<<"/", "div">>) =>
             (ret.exc = "ok" /\ qr.tail = "ok" /\ qr.seq = KeptChildren(IsDiv))

\* '/+' was queried on a node with children of both sorts: it kept some
\* and dropped some.
C15_Witness ==
    /\ QueriedOk(<<"/", "+">>)
    /\ qr.seq # <<>>
    /\ Len(qr.seq) < Len(children[ret.node])

\* C16: a rule with a malformed bracket predicate fails with ValueError, in
\* the first segment or in a later one, on every tree; the failure is
\* accepted when the call raises and when the iteration of its result does.
C16_Malformed ==
    (/\ ret.op = "query"
     /\ ret.rule \in { <<"div", "[", "bogus", "]">>,
                       <<"/", "div", "/", "span", "[", "bogus", "]">>,
                       <<"/", "p", "/", "span", "[", "bogus", "]">> })
        => (ret.exc = "ValueError" \/ qr.tail = "ValueError")

\* C17: every complete iteration over a QueryResult yields its full
\* sequence, whatever was read from it before.
C17_IterationStable ==
    (ret.op = "iterate" /\ qr.tail = "ok") =>
        (ret.exc = "ok" /\ ret.value = qr.seq)

\* What qr[i] must give for the full sequence s of qr: s[i] inside the
\* sequence, IndexError outside; a negative index leaves the QueryResult
\* finished with _results equal to s.
IndexPost(i) ==
    LET s == qr.seq
        n == Len(s)
    IN /\ (0 <= i /\ i < n) => (ret'.exc = "ok" /\ ret'.value = <<s[i + 1]>>)
       /\ i >= n => ret'.exc = "IndexError"
       /\ i < 0 =>
            /\ ~qr'.gen
            /\ qr'.results = s
            /\ IF i + n >= 0
               THEN ret'.exc = "ok" /\ ret'.value = <<s[i + n + 1]>>
               ELSE ret'.exc = "IndexError"

\* C18: whatever was read before, result[i] is s[i] for 0 <= i < len(s)
\* and IndexError for i >= len(s); a negative index and .last materialize
\* the whole sequence first and then give s[i], IndexError when there is
\* no such node.
C18_Index ==
    [][(qr.made /\ qr.tail = "ok") =>
          /\ \A i \in QueryIndexes(qr) : GetItemCall(i) => IndexPost(i)
          /\ LastCall => IndexPost(0 - 1)]_vars

\* An index access went past the memo of a QueryResult that had been read
\* in part, and drove its generator on.
C18_Witness ==
    /\ ret.op = "getitem"
    /\ ret.exc = "ok"
    /\ qr.gen
    /\ Len(qr.results) >= 2
    /\ ret.value = <<qr.results[Len(qr.results)]>>

\* What querying every member of qr with rule gives, member by member.
MemberQueries(rule) ==
    [k \in 1 .. Len(qr.seq) |-> NodeQuery(TheDoc, fields, qr.seq[k], rule)]

\* C19: R.query(rule), for a QueryResult R nothing was read from yet,
\* yields what member.query(rule) yields for the members of R: children or
\* descendants of the members, never a member for being a member.
C19_QueryOfResult ==
    [][\A rule \in Rules :
          (/\ qr.made /\ qr.tail = "ok" /\ qr.pos = 0 /\ qr.gen
           /\ ResultQueryCall(rule)
           /\ \A k \in 1 .. Len(qr.seq) :
                  MemberQueries(rule)[k].exc = "ok"
                  /\ MemberQueries(rule)[k].tail = "ok")
          => /\ ret'.exc = "ok"
             /\ qr'.tail = "ok"
             /\ Elems(qr'.seq) =
                   UNION {Elems(MemberQueries(rule)[k].items) :
                             k \in 1 .. Len(qr.seq)}]_vars

\* No node occurs twice in q.
NoDuplicates(q) ==
    \A i \in 1 .. Len(q) : \A j \in 1 .. Len(q) : q[i] = q[j] => i = j

\* C30: the sequence a query on a node produces never holds the same node
\* twice, for rules of one segment and of several segments alike.
C30_NoDuplicates ==
    (ret.op = "query" /\ ret.exc = "ok") => NoDuplicates(qr.seq)

\* C29: under every interleaving of accesses to one QueryResult (iterators
\* advanced alternately, index accesses, first, last, len, abandoned
\* iterations) _results is the sequence of the nodes the generator has
\* yielded so far, in its order, without gap or duplicate, and it is the
\* generator's complete sequence whenever _gen is None.
C29_MemoPrefix ==
    qr.made =>
        /\ qr.results = SubSeq(qr.seq, 1, qr.pos)
        /\ ~qr.gen => qr.results = qr.seq
\* Two iterators are suspended in the loop over the generator, which has
\* yielded some but not all of its nodes.
C29_Witness ==
    /\ qr.made
    /\ \A i \in Iterators : qr.iters[i].mode = "gen"
    /\ qr.pos > 1
    /\ qr.pos < Len(qr.seq)

\* ------------------------------------------------------ claims: render
\* The pairs of callback_data a node carries.
Pairs(n) == IF fields[n].callback_data = <<>> THEN <<>> ELSE fields[n].callback_data[1]
\* What the hook answers when it is offered pair k of node n for markup.
Answer(n, k) ==
    FirstAnswer(EmitEvent(TheDoc, fields, listeners,
                          Event(Pairs(n)[k][1], Pairs(n)[k][2], n, FALSE)))
\* The first pair of node n the hook answers, 0 when it answers none.
Winner(n) ==
    IF \A k \in 1 .. Len(Pairs(n)) : Answer(n, k) = <<>> THEN 0
    ELSE CHOOSE k \in 1 .. Len(Pairs(n)) :
            Answer(n, k) # <<>> /\ \A m \in 1 .. (k - 1) : Answer(n, m) = <<>>
\* render() of node n gave what the hook answered to the first pair it
\* answered, having been offered the pairs up to that one, in order, for
\* markup, and nothing else.
FirstNonNullWins(n) ==
    /\ ret.value = Answer(n, Winner(n))[1]
    /\ offered = [k \in 1 .. Winner(n) |->
                    Event(Pairs(n)[k][1], Pairs(n)[k][2], n, FALSE)]
RenderedPlain == ret.op = "render" /\ ret.rule = <<>>

\* C20: rendering a node without an injected string offers each pair of its
\* callback_data to the hook in attachment order with text_only false; the
\* first answer that is not null is the node's whole rendering and no later
\* pair is offered, whatever the variant of the node carrying the pairs.
C20_CallbackFirst ==
    (RenderedPlain /\ Winner(ret.node) > 0) => FirstNonNullWins(ret.node)

\* The open and the close tag of element n.
OpenTag(n) ==
    <<"<", NameText(fields[n])>>
    \o (IF fields[n].attributes = <<>> THEN <<>>
        ELSE <<" ">> \o JoinAttributes(fields[n].attributes))
    \o <<">">>
CloseTag(n) == <<"</", NameText(fields[n]), ">">>
\* The names that render without a close tag.
SelfClosingNames ==
    {"br", "img", "area", "hr", "param", "meta", "link", "base", "input",
     "embed", "col"}
IsElement(n) == fields[n].cls = "Node"
RenderedInject == ret.op = "render" /\ ret.rule # <<>>

\* C21: render(inject=text) of an element that is not self-closing gives
\* the open tag with the attributes, the injected text and the close tag;
\* no child is rendered and the hook is offered nothing, neither for the
\* element nor for its descendants, whatever callback_data they carry.
C21_Inject ==
    (RenderedInject /\ IsElement(ret.node)
        /\ NameText(fields[ret.node]) \notin SelfClosingNames)
    => /\ ret.value = OpenTag(ret.node) \o ret.rule[1] \o CloseTag(ret.node)
       /\ offered = <<>>
    /\ parsing = NoParsing
\* An element with children was rendered with an injected string while it
\* carried a pair the hook answers.
C21_Witness ==
    /\ RenderedInject /\ IsElement(ret.node)
    /\ NameText(fields[ret.node]) \notin SelfClosingNames
    /\ children[ret.node] # <<>>
    /\ ret.rule[1] # <<>>
    /\ Winner(ret.node) > 0
    /\ \E m \in Below(ret.node) : Pairs(m) # <<>>

\* C22: the structural rendering of an element whose name is in the
\* self-closing set is its open tag alone: no close tag, no child, no
\* injected text, with or without children, with or without inject.
C22_SelfClosing ==
    (ret.op = "render" /\ IsElement(ret.node)
        /\ NameText(fields[ret.node]) \in SelfClosingNames
        /\ (ret.rule # <<>> \/ Winner(ret.node) = 0))
    => ret.value = OpenTag(ret.node)
\* A self-closing element with children was rendered with a string
\* injected.
C22_Witness ==
    /\ RenderedInject /\ IsElement(ret.node)
    /\ NameText(fields[ret.node]) \in SelfClosingNames
    /\ children[ret.node] # <<>>
    /\ ret.rule[1] # <<>>

\* ------------------------------------------------- claims: node text
\* The extraction rule: newline for br, the children's text (and two
\* newlines after it for p) for the other elements and the Fragment, its
\* value for a text node, nothing for a data node.
RECURSIVE TextRule(_)
RECURSIVE TextRuleAll(_)
TextRuleAll(kids) ==
    IF kids = <<>> THEN <<>> ELSE TextRule(Head(kids)) \o TextRuleAll(Tail(kids))
TextRule(n) ==
    CASE fields[n].cls = "TextNode" -> fields[n].value
      [] fields[n].cls = "DataNode" -> <<>>
      [] fields[n].cls = "Node" /\ fields[n].name = <<"br">> -> <<"\n">>
      [] fields[n].cls = "Node" /\ fields[n].name = <<"p">> ->
            TextRuleAll(children[n]) \o <<"\n\n">>
      [] OTHER -> TextRuleAll(children[n])
NoCallbacks == \A n \in DocNodes : Pairs(n) = <<>>

AnswerText(n, k) ==
    FirstAnswer(EmitEvent(TheDoc, fields, listeners,
                          Event(Pairs(n)[k][1], Pairs(n)[k][2], n, TRUE)))
WinnerText(n) ==
    IF \A k \in 1 .. Len(Pairs(n)) : AnswerText(n, k) = <<>> THEN 0
    ELSE CHOOSE k \in 1 .. Len(Pairs(n)) :
            AnswerText(n, k) # <<>>
            /\ \A m \in 1 .. (k - 1) : AnswerText(n, m) = <<>>
FirstNonNullText(n) ==
    /\ ret.value = AnswerText(n, WinnerText(n))[1]
    /\ offered = [k \in 1 .. WinnerText(n) |->
                    Event(Pairs(n)[k][1], Pairs(n)[k][2], n, TRUE)]

\* C28: .text of a node carrying callback_data offers each pair to the
\* hook in attachment order with text_only true, and the first answer that
\* is not null is the node's text in place of the extraction rule, for
\* element, text, data and fragment nodes alike.
C28_TextCallback ==
    (ret.op = "text" /\ WinnerText(ret.node) > 0) => FirstNonNullText(ret.node)

\* ------------------------------------------------------- claims: parse
\* The listeners of 'switch-markup-parser' that supply a parser for the
\* reason, and the first of them.
Suppliers(reason) ==
    {k \in 1 .. Len(parsing.switch) :
        parsing.switch[k].reason \in {"any", reason}}
FirstSupplier(reason) ==
    CHOOSE k \in Suppliers(reason) : \A m \in Suppliers(reason) : k <= m
Step(name) == \E k \in 1 .. Len(parsing.call.steps) : parsing.call.steps[k] = name
StepAt(name) == CHOOSE k \in 1 .. Len(parsing.call.steps) : parsing.call.steps[k] = name
\* The last call had the tree of the default parser built.
DefaultParsed == ret.op = "parse" /\ Step("MarkupParser.parse")

\* C24: parse(text, reason) offers text and reason to the listeners of
\* 'switch-markup-parser' first; when one supplies a parser, what the first
\* such parser's parse(text, reason) gives is returned, no MarkupParser is
\* constructed and the cache is neither read nor written; the default
\* parser is used only when no listener supplies one.
C24_ParsePost(app, input, reason) ==
    IF Suppliers(reason) # {}
    THEN /\ ret'.value =
              <<AlternateParse(parsing.switch[FirstSupplier(reason)].parser,
                               input, reason)>>
         /\ parsing'.call.steps = <<"switch-markup-parser", "parser.parse">>
         /\ parsing'.cache = parsing.cache
         /\ parsing'.constructed = parsing.constructed
    ELSE /\ parsing'.call.steps[1] = "switch-markup-parser"
         /\ \E k \in 2 .. Len(parsing'.call.steps) :
                parsing'.call.steps[k] = "MarkupParser.parse"
         /\ parsing'.cache[app] # <<>>
C24_AlternateFirst ==
    [][\A app \in Apps, input \in Inputs, reason \in Reasons :
          ParseCall(app, input, reason) => C24_ParsePost(app, input, reason)]_vars
\* A parser supplied by the second listener (the first answered None) made
\* the tree, in a context whose cache entry is still empty.
C24_Witness ==
    /\ ret.op = "parse"
    /\ Suppliers(parsing.call.reason) # {}
    /\ FirstSupplier(parsing.call.reason) > 1
    /\ parsing.cache[parsing.call.app] = <<>>
    /\ Step("parser.parse")

\* The listeners of 'process-doc-tree' that answer with a tree, the first
\* of them, and the callbacks the listeners before a given one attach.
Replacers == {k \in 1 .. Len(parsing.doctree) : parsing.doctree[k].kind = "replace"}
FirstReplacer == CHOOSE k \in Replacers : \A m \in Replacers : k <= m
RECURSIVE MarksBefore(_)
MarksBefore(k) ==
    IF k = 0 THEN <<>>
    ELSE MarksBefore(k - 1)
         \o (IF parsing.doctree[k].kind = "mark"
             THEN <<(<<parsing.doctree[k].text, <<>>>>)>> ELSE <<>>)
\* The tree the default parser builds from the soup of the last call's
\* input: a Fragment above the converted contents.
Constructed ==
    [cls |-> "Fragment", name |-> <<>>, attributes |-> <<>>, value |-> <<>>,
     callback_data |-> <<>>,
     children |-> ConvertContents(Soup(parsing.call.input).contents)]

\* C25: the tree the default parser builds has a Fragment as its outermost
\* node; the listeners of 'process-doc-tree' are offered it, the first
\* value one of them returns that is not null is the result of parse, and
\* otherwise the result is the constructed tree as the listeners left it.
C25_PostParse ==
    DefaultParsed =>
        /\ parsing.call.tree[1].cls = "Fragment"
        /\ parsing.call.tree[1].children = Constructed.children
        /\ IF Replacers # {}
           THEN ret.value[1] =
                    [Constructed EXCEPT
                        !.children =
                            <<TreeNode(NewTextNode(
                                parsing.doctree[FirstReplacer].text), <<>>)>>]
           ELSE /\ ret.value[1] = parsing.call.tree[1]
                /\ ret.value[1] =
                     [Constructed EXCEPT
                        !.callback_data =
                            IF MarksBefore(Len(parsing.doctree)) = <<>> THEN <<>>
                            ELSE <<MarksBefore(Len(parsing.doctree))>>]
\* The tree of a single root element was built and handed back with a
\* callback a listener attached; or a listener's tree replaced it.
C25_Witness ==
    /\ DefaultParsed
    /\ parsing.call.input = "<p>a</p>"
    /\ \/ Replacers = {} /\ ret.value[1].callback_data # <<>>
       \/ Replacers # {} /\ FirstReplacer > 1

\* C26: over any sequence of parse calls that reach the default parser in
\* one application context, one MarkupParser is constructed for the
\* context and 'setup-markup-parser' is emitted once, before the first
\* default parse; every later default parse takes the instance from the
\* cache and leaves it, and so its tag lists, as it is.
C26_ParsePost(app) ==
    /\ \A a \in Apps : parsing'.constructed[a] <= 1 /\ parsing'.emitted[a] <= 1
    /\ (\E k \in 1 .. Len(parsing'.call.steps) :
            parsing'.call.steps[k] = "MarkupParser.parse")
       => /\ parsing'.constructed[app] = 1
          /\ parsing'.emitted[app] = 1
          /\ IF parsing.cache[app] # <<>>
             THEN /\ parsing'.cache = parsing.cache
                  /\ parsing'.constructed = parsing.constructed
                  /\ parsing'.emitted = parsing.emitted
             ELSE /\ parsing'.cache[app] = <<MarkupParser(parsing.setup)>>
                  /\ \E k \in 1 .. Len(parsing'.call.steps) :
                        /\ parsing'.call.steps[k] = "setup-markup-parser"
                        /\ \A m \in 1 .. k :
                              parsing'.call.steps[m] # "MarkupParser.parse"
C26_OneParser ==
    [][\A app \in Apps, input \in Inputs, reason \in Reasons :
          ParseCall(app, input, reason) => C26_ParsePost(app)]_vars
\* A default parse took the parser of its context from the cache, with
\* lists the setup listeners had extended, while the other context has a
\* parser of its own.
C26_Witness ==
    /\ DefaultParsed
    /\ Step("_parser_cache")
    /\ parsing.setup # <<>>
    /\ \A a \in Apps : parsing.cache[a] # <<>> /\ parsing.constructed[a] = 1

====
